---------------------------- MODULE Spec2Model ----------------------------
(***************************************************************************)
(* Verification model of the Linux_RPC_Node message bus.                   *)
(*                                                                         *)
(*   Part I   LockFreeRingBuffer<BUFFER_SIZE>  (LockFreeQueue.h)           *)
(*   Part II  GlobalRegistry service table     (GlobalRegistry.cpp)        *)
(*   Part III NodeImpl publish/subscribe core  (NodeImpl.cpp)              *)
(*   Part IV  NodeImpl UDP port selection      (NodeImpl.cpp)              *)
(*   Part V   UDP timeout check (reaper) of the node                       *)
(*   Part VI  SharedMemoryRegistry             (SharedMemoryRegistry.h)    *)
(*   Part VII Calls in progress on several threads (locks of NodeImpl and  *)
(*            GlobalRegistry)                                              *)
(*                                                                         *)
(* Specifications: SpecRing and SpecCorrupt (Part I), SpecReg and          *)
(* SpecEndpoint (Part II), and for Part III SpecLife (node lifecycle),     *)
(* SpecSub and SpecResub (subscription table), SpecNode (publish           *)
(* delivery) and SpecOrder (publishes in a row), SpecSelf (packets with    *)
(* the receiver's id), SpecDisc (discovery), SpecAnnounce and              *)
(* SpecAnnounceFair (announcements between processes), SpecPort (Part IV), *)
(* SpecReap (Part V), SpecShm, SpecTorn and SpecRace (Part VI), SpecLock   *)
(* and SpecUnreg (Part VII); the variables of the other parts stay         *)
(* unchanged.                                                              *)
(***************************************************************************)
EXTENDS Integers, Sequences, FiniteSets, TLC

VARIABLES
    \* ---- Part I: LockFreeRingBuffer members ----
    head_,                   \* std::atomic<uint64_t> head_
    tail_,                   \* std::atomic<uint64_t> tail_
    buffer_,                 \* uint8_t buffer_[BUFFER_SIZE], one entry per 8 bytes
    stats_messages_written_,
    stats_messages_read_,
    stats_messages_dropped_,
    prod,                    \* the producer thread inside tryWrite: pc and locals
    cons,                    \* the consumer thread inside tryRead: pc and locals
    written,                 \* history: the messages accepted by tryWrite, in order
    readLog,                 \* history: the messages returned by tryRead, in order
    ringObs,                 \* history: facts about the calls made so far
    \* ---- Part II: GlobalRegistry members ----
    services_,               \* std::map<group, std::vector<ServiceDescriptor>>
    nodes_,                  \* std::map<node_id, std::weak_ptr<NodeImpl>>
    regObs,                  \* history: the registrations made in a row for one identity
    \* ---- Part III: NodeImpl ----
    objs,                    \* the NodeImpl objects of the process, by address
    node_registry_,          \* static NodeImpl::node_registry_ (node_id -> weak_ptr)
    net,                     \* datagrams sent by the nodes of the process, in flight
    pub,                     \* per object: the broadcast() call in progress
    cbLog,                   \* history: the callback invocations made so far
    nodeObs,                 \* history: facts about the calls made so far
    \* ---- Part IV: UDP port selection of NodeImpl::initialize ----
    next_port,               \* static std::atomic<uint16_t> next_port
    udp_ports,               \* the ports of the nodes initialised so far, in order
    portBusy,                \* the ports held by sockets of other processes
    initCall,                \* the initialize() call in progress: pc and locals
    \* ---- Part V: UDP timeout check of the node ----
    remote_nodes_,           \* RemoteNodeInfo by node_id (UDP view): last_heartbeat
    clock,                   \* steady_clock::now(), in seconds
    reapObs,                 \* history: the runs of the timeout check
    \* ---- Part VI: SharedMemoryRegistry region ----
    entries,                 \* RegistryRegion::entries, the slots of the region
    shmNow,                  \* getCurrentTimeMs(), in seconds
    deadPids,                \* the processes that have ended
    wr,                      \* the registerNode call writing a slot: pc and locals
    rd,                      \* the getAllNodes call reading the region: pc and locals
    shmObs,                  \* history: the latest call on the registry
    \* ---- Part VII: calls in progress on several threads or processes ----
    subscriptions_mutex_,    \* per object: the thread that holds its std::mutex, 0 when free
    stack,                   \* per thread: the calls of broadcast and handleMessage it is in
    unregCall,               \* GlobalRegistry::unregisterNode between its two locks: pc and locals
    regs                     \* per process: its registerNode call on the shared region, pc and locals

ringVars == <<head_, tail_, buffer_, stats_messages_written_, stats_messages_read_,
              stats_messages_dropped_, prod, cons, written, readLog, ringObs>>

regVars == <<services_, nodes_, regObs>>

nodeVars == <<objs, node_registry_, net, pub, cbLog, nodeObs>>

portVars == <<next_port, udp_ports, portBusy, initCall>>

reapVars == <<remote_nodes_, clock, reapObs>>

shmVars == <<entries, shmNow, deadPids, wr, rd, shmObs>>

callVars == <<subscriptions_mutex_, stack, unregCall, regs>>

vars == <<ringVars, regVars, nodeVars, portVars, reapVars, shmVars, callVars>>

(***************************************************************************)
(* Part I.  LockFreeRingBuffer                                             *)
(***************************************************************************)

\* Template argument of the ring under test (LockFreeRingBuffer<64>).
BUFFER_SIZE == 64
MAX_MSG_SIZE == 2040
FrameHeaderSize == 8
MAGIC_VALID == "CAFEBABE"
MAGIC_PADDING == "DEADBEEF"
\* Any header word that is neither of the two magics.
MAGIC_OTHER == "OTHER"

\* Bounds of the exploration.
MaxMsgs == 5          \* accepted messages per run
MaxDrops == 1         \* rejected-as-full calls counted per run
OobCells == 2         \* 8-byte cells past buffer_ that a stray tail may reach


\* Payload sizes offered to tryWrite: two invalid ones (0, MAX_MSG_SIZE + 1)
\* and sizes that frame to 16, 24 and 32 bytes.
WriteSizes == {0, 1, 9, 17, MAX_MSG_SIZE + 1}

\* The data pointer handed to tryWrite: the caller's bytes, or nullptr.
DataPointers == {"buf", "null"}

NCells == BUFFER_SIZE \div 8
CellIdx == 0 .. (NCells - 1)

\* (sizeof(FrameHeader) + size + 7) & ~7
AlignedLen(size) == ((FrameHeaderSize + size + 7) \div 8) * 8

\* Number of 8-byte cells that hold (part of) a payload of `size` bytes.
PayloadCells(size) == (size + 7) \div 8

ZeroCell == [k |-> "zero", magic |-> MAGIC_OTHER, length |-> 0, v |-> 0]
HdrCell(magic, length) == [k |-> "hdr", magic |-> magic, length |-> length, v |-> 0]
DataCell(v) == [k |-> "data", magic |-> MAGIC_OTHER, length |-> 0, v |-> v]

\* A byte offset inside buffer_.
InBuffer(off) == off >= 0 /\ off < BUFFER_SIZE

\* memcpy(&buffer_[off], ...) of one 8-byte cell.  A store past the end of
\* buffer_ lands in memory that is not part of the ring and is not tracked.
PutCell(buf, off, cell) ==
    IF InBuffer(off) THEN [buf EXCEPT ![off \div 8] = cell] ELSE buf

RECURSIVE PutPayload(_, _, _, _)
PutPayload(buf, off, n, v) ==
    IF n = 0 THEN buf
    ELSE PutPayload(PutCell(buf, off, DataCell(v)), off + 8, n - 1, v)

\* writeFrame(offset, data, payload_size, total_len, magic): header, then payload.
writeFrame(buf, offset, v, payload_size, total_len, magic) ==
    LET hdr == IF magic = MAGIC_VALID
               THEN HdrCell(magic, payload_size)
               ELSE HdrCell(magic, total_len)
    IN  PutPayload(PutCell(buf, offset, hdr), offset + FrameHeaderSize,
                   PayloadCells(payload_size), v)

\* What 8 bytes past the end of buffer_ may hold: anything.  The three kinds
\* of header the reader distinguishes, with a small and an oversize length.
OobHeaders ==
    { [magic |-> MAGIC_PADDING, length |-> 0],
      [magic |-> MAGIC_OTHER, length |-> 0],
      [magic |-> MAGIC_VALID, length |-> 1],
      [magic |-> MAGIC_VALID, length |-> MAX_MSG_SIZE + 1] }

\* memcpy(&header, &buffer_[off], sizeof(header)): the headers the copy can yield.
HeadersAt(buf, off) ==
    IF InBuffer(off)
    THEN {[magic |-> buf[off \div 8].magic, length |-> buf[off \div 8].length]}
    ELSE OobHeaders

\* memcpy(out_data, &buffer_[off], payload_len), one value per 8-byte cell;
\* -1 stands for bytes that are no payload written by tryWrite.
RECURSIVE ReadPayload(_, _, _)
ReadPayload(buf, off, n) ==
    IF n = 0 THEN <<>>
    ELSE <<IF InBuffer(off) /\ buf[off \div 8].k = "data" THEN buf[off \div 8].v ELSE -1>>
         \o ReadPayload(buf, off + 8, n - 1)

\* The bytes tryWrite was handed: value v in every payload cell.
Message(v, size) == [size |-> size, data |-> [i \in 1 .. PayloadCells(size) |-> v]]

\* data: the pointer of the call in progress or of the last call; invalid:
\* history, whether that call was made with a null pointer, size 0 or a size
\* above MAX_MSG_SIZE.
ProdIdle == [pc |-> "idle", size |-> 0, needed |-> 0, head |-> 0, tail |-> 0,
             newHead |-> 0, ret |-> "none", data |-> "buf", invalid |-> FALSE]
\* ret: the last call's result; empty: whether that call found tail == head;
\* afterEndWrap: whether that call began after a wrap taken at head == BUFFER_SIZE;
\* entry: the tail that call loaded first; bad: whether that call returned for
\* the header it found at its first read position ("entry") or at offset 0
\* after a padding frame ("afterPad").
ConsIdle == [pc |-> "idle", tail |-> 0, head |-> 0, magic |-> MAGIC_OTHER, length |-> 0,
             ret |-> "none", empty |-> FALSE, afterEndWrap |-> FALSE,
             entry |-> 0, bad |-> "none"]

\* The 8-byte cells of buffer_ inside [off, off + len).
CellsOf(off, len) == {c \in CellIdx : off <= 8 * c /\ 8 * c < off + len}

\* The byte offsets of the frame tryRead copies: its header and its payload.
FrameOffsets(tail, payload_len) ==
    {tail + 8 * k : k \in 0 .. PayloadCells(payload_len)}

\* live: history, the cells of the frames that a store to head_ has published
\* and whose read has not been completed by a store to tail_; clobbered:
\* whether a copy of tryWrite stored into a live cell; unpublished: whether
\* tryRead copied a frame of which some byte was in no live cell.
RingObs0 == [endWrap |-> FALSE, padSkips |-> 0, fullRejects |-> 0,
             live |-> {}, clobbered |-> FALSE, unpublished |-> FALSE]

InitRing ==
    /\ head_ = 0
    /\ tail_ = 0
    /\ buffer_ = [i \in CellIdx |-> ZeroCell]
    /\ stats_messages_written_ = 0
    /\ stats_messages_read_ = 0
    /\ stats_messages_dropped_ = 0
    /\ prod = ProdIdle
    /\ cons = ConsIdle
    /\ written = <<>>
    /\ readLog = <<>>
    /\ ringObs = RingObs0


\* What a header of a damaged region may hold where tryRead looks at it:
\* zero bytes, a foreign magic, a padding frame, a frame of one byte and a
\* frame with a length above MAX_MSG_SIZE.
CorruptCells ==
    {ZeroCell, HdrCell(MAGIC_OTHER, 16), HdrCell(MAGIC_PADDING, 8),
     HdrCell(MAGIC_VALID, 1), HdrCell(MAGIC_VALID, MAX_MSG_SIZE + 1)}

\* The cursors of the damaged regions explored.
CorruptTails == {0, 24, 56}
CorruptHeads == {0, 16, 40}

\* A region the consumer attaches to after its writer has gone: the cursors
\* are at frame boundaries, and the headers at the read position and at
\* offset 0 hold what the writer or a fault left there.
InitRingCorrupt ==
    /\ head_ \in CorruptHeads
    /\ tail_ \in CorruptTails
    /\ \E atTail \in CorruptCells, atZero \in CorruptCells :
          buffer_ = [i \in CellIdx |->
                        IF i = tail_ \div 8 THEN atTail
                        ELSE IF i = 0 THEN atZero
                        ELSE ZeroCell]
    /\ stats_messages_written_ = 0
    /\ stats_messages_read_ = 0
    /\ stats_messages_dropped_ = 0
    /\ prod = ProdIdle
    /\ cons = ConsIdle
    /\ written = <<>>
    /\ readLog = <<>>
    /\ ringObs = RingObs0

\* ---------------------------------------------------------------- tryWrite

\* size_t pad_len = BUFFER_SIZE - head, in unsigned arithmetic: for a head past
\* BUFFER_SIZE the difference wraps around to a huge value.  The only use of
\* pad_len that decides anything is `pad_len >= sizeof(FrameHeader)`, so the
\* wrapped value is represented by the largest frame length (the model
\* checker's integers are 32-bit and cannot hold 2^64 - k).
PadLen(head) ==
    IF head <= BUFFER_SIZE THEN BUFFER_SIZE - head ELSE MAX_MSG_SIZE + FrameHeaderSize

\* The branch tryWrite takes for the loaded head and tail (lines 70-114):
\*   "end"  the frame fits in [head, BUFFER_SIZE)
\*   "wrap" padding at head, frame at offset 0
\*   "mid"  head < tail and the frame fits strictly below tail
\*   "full" rejected
WriteBranch(head, tail, needed) ==
    IF head >= tail
    THEN IF head + needed <= BUFFER_SIZE THEN "end"
         ELSE IF needed < tail THEN "wrap"
         ELSE "full"
    ELSE IF head + needed < tail THEN "mid"
         ELSE "full"

\* The buffer after the copies of the taken branch.
WriteBuffer(buf, branch, head, v, size, needed) ==
    CASE branch = "wrap" ->
            LET padded == IF PadLen(head) >= FrameHeaderSize
                          THEN PutCell(buf, head, HdrCell(MAGIC_PADDING, PadLen(head)))
                          ELSE buf
            IN  writeFrame(padded, 0, v, size, needed, MAGIC_VALID)
      [] branch \in {"end", "mid"} -> writeFrame(buf, head, v, size, needed, MAGIC_VALID)
      [] OTHER -> buf

\* The buffer when the copy of the taken branch stops at the payload: the
\* padding header and the frame header are in place (writeFrame lines 212-219).
WriteHeaders(buf, branch, head, size, needed) ==
    CASE branch = "wrap" ->
            LET padded == IF PadLen(head) >= FrameHeaderSize
                          THEN PutCell(buf, head, HdrCell(MAGIC_PADDING, PadLen(head)))
                          ELSE buf
            IN  PutCell(padded, 0, HdrCell(MAGIC_VALID, size))
      [] branch \in {"end", "mid"} -> PutCell(buf, head, HdrCell(MAGIC_VALID, size))
      [] OTHER -> buf

\* memcpy(&buffer_[offset + sizeof(hdr)], data, payload_size) (line 220): with
\* the caller's bytes the copy is made; from a null pointer it is undefined, the
\* thread is stopped by the fault or the copy goes through with whatever bytes
\* the read yields.
PayloadCopyOutcomes(data) ==
    IF data = "null" THEN {"fault", "copied"} ELSE {"copied"}

\* The value stored to head_ by the taken branch.
NewHead(branch, head, needed) ==
    IF branch = "wrap" THEN needed ELSE head + needed

\* The cells the copies of the taken branch store into.
WrittenCells(branch, head, needed) ==
    CASE branch = "wrap" ->
            (IF PadLen(head) >= FrameHeaderSize THEN CellsOf(head, FrameHeaderSize) ELSE {})
            \cup CellsOf(0, needed)
      [] branch \in {"end", "mid"} -> CellsOf(head, needed)
      [] OTHER -> {}

\* tryWrite entered: the argument check and `needed` (lines 57-63).
TryWriteCall(data, size) ==
    /\ prod.pc = "idle"
    /\ Len(written) < MaxMsgs
    /\ IF size > MAX_MSG_SIZE \/ size = 0
       THEN prod' = [ProdIdle EXCEPT !.ret = "false", !.data = data, !.invalid = TRUE]
       ELSE prod' = [ProdIdle EXCEPT !.pc = "loadHead", !.size = size,
                                     !.needed = AlignedLen(size), !.data = data,
                                     !.invalid = (data = "null")]
    /\ UNCHANGED <<head_, tail_, buffer_, stats_messages_written_, stats_messages_read_,
                   stats_messages_dropped_, cons, written, readLog, ringObs,
                   regVars, nodeVars, portVars, reapVars, shmVars, callVars>>

\* uint64_t head = head_.load(acquire)  (line 66)
TryWriteLoadHead ==
    /\ prod.pc = "loadHead"
    /\ prod' = [prod EXCEPT !.pc = "loadTail", !.head = head_]
    /\ UNCHANGED <<head_, tail_, buffer_, stats_messages_written_, stats_messages_read_,
                   stats_messages_dropped_, cons, written, readLog, ringObs,
                   regVars, nodeVars, portVars, reapVars, shmVars, callVars>>

\* uint64_t tail = tail_.load(acquire)  (line 67)
TryWriteLoadTail ==
    /\ prod.pc = "loadTail"
    /\ prod' = [prod EXCEPT !.pc = "write", !.tail = tail_]
    /\ UNCHANGED <<head_, tail_, buffer_, stats_messages_written_, stats_messages_read_,
                   stats_messages_dropped_, cons, written, readLog, ringObs,
                   regVars, nodeVars, portVars, reapVars, shmVars, callVars>>

\* The space check and the copies into buffer_ (lines 70-110, before the store).
TryWriteCopy ==
    /\ prod.pc = "write"
    /\ LET branch == WriteBranch(prod.head, prod.tail, prod.needed)
       IN  /\ branch # "full"
           /\ \E outcome \in PayloadCopyOutcomes(prod.data) :
                 IF outcome = "fault"
                 THEN /\ buffer_' = WriteHeaders(buffer_, branch, prod.head, prod.size,
                                                 prod.needed)
                      /\ prod' = [prod EXCEPT !.pc = "fault"]
                 ELSE /\ buffer_' = WriteBuffer(buffer_, branch, prod.head,
                                                Len(written) + 1, prod.size, prod.needed)
                      /\ prod' = [prod EXCEPT !.pc = "store",
                                     !.newHead = NewHead(branch, prod.head, prod.needed)]
           /\ ringObs' = [ringObs EXCEPT
                            !.endWrap = @ \/ (branch = "wrap" /\ prod.head = BUFFER_SIZE),
                            !.clobbered =
                                @ \/ (WrittenCells(branch, prod.head, prod.needed)
                                         \cap ringObs.live # {})]
    /\ UNCHANGED <<head_, tail_, stats_messages_written_, stats_messages_read_,
                   stats_messages_dropped_, cons, written, readLog,
                   regVars, nodeVars, portVars, reapVars, shmVars, callVars>>

\* Queue full (lines 112-114).
TryWriteFull ==
    /\ prod.pc = "write"
    /\ WriteBranch(prod.head, prod.tail, prod.needed) = "full"
    /\ stats_messages_dropped_ < MaxDrops
    /\ stats_messages_dropped_' = stats_messages_dropped_ + 1
    /\ prod' = [ProdIdle EXCEPT !.ret = "false", !.data = prod.data,
                                 !.invalid = prod.invalid]
    /\ ringObs' = [ringObs EXCEPT !.fullRejects = @ + 1]
    /\ UNCHANGED <<head_, tail_, buffer_, stats_messages_written_, stats_messages_read_,
                   cons, written, readLog,
                   regVars, nodeVars, portVars, reapVars, shmVars, callVars>>

\* head_.store(..., release); stats; return true (lines 76-78, 97-99, 106-108).
TryWriteStore ==
    /\ prod.pc = "store"
    /\ head_' = prod.newHead
    /\ stats_messages_written_' = stats_messages_written_ + 1
    /\ written' = Append(written, Message(Len(written) + 1, prod.size))
    /\ prod' = [ProdIdle EXCEPT !.ret = "true", !.data = prod.data,
                                 !.invalid = prod.invalid]
    /\ ringObs' = [ringObs EXCEPT !.live =
                      @ \cup CellsOf(prod.newHead - prod.needed, prod.needed)]
    /\ UNCHANGED <<tail_, buffer_, stats_messages_read_, stats_messages_dropped_,
                   cons, readLog,
                   regVars, nodeVars, portVars, reapVars, shmVars, callVars>>


\* ----------------------------------------------------------------- tryRead

\* What tryRead does with a header found at the read position (lines 137-162):
\*   "pad"     the padding branch
\*   "corrupt" return false
\*   "copy"    copy the payload
HeaderKind(magic, length) ==
    IF magic = MAGIC_PADDING THEN "pad"
    ELSE IF magic # MAGIC_VALID THEN "corrupt"
    ELSE IF length > MAX_MSG_SIZE THEN "corrupt"
    ELSE "copy"

\* A check of the re-read header that omits the test of the length.
headerKindAfterPadNoLengthCheck(magic, length) ==
    IF magic # MAGIC_VALID THEN "corrupt" ELSE "copy"

\* The same for the header re-read at offset 0 after a padding frame
\* (lines 150-162): a second padding magic is simply not MAGIC_VALID.
HeaderKindAfterPad(magic, length) ==
    IF magic # MAGIC_VALID THEN "corrupt"
    ELSE IF length > MAX_MSG_SIZE THEN "corrupt"
    ELSE "copy"

\* The consumer's record once tryRead has returned `ret`.
ConsReturn(ret, empty) ==
    [ConsIdle EXCEPT !.ret = ret, !.empty = empty, !.afterEndWrap = cons.afterEndWrap,
                     !.entry = cons.entry,
                     !.bad = IF ret = "true" THEN "none"
                             ELSE IF cons.pc = "header" THEN "entry"
                             ELSE IF cons.pc = "header0" THEN "afterPad"
                             ELSE "none"]

\* The value tryRead stores to tail_ after a frame (lines 165, 171).
NewTail(tail, payload_len) == tail + AlignedLen(payload_len)

\* uint64_t tail = tail_.load(acquire)  (line 125)
TryReadLoadTail ==
    /\ cons.pc = "idle"
    /\ Len(readLog) < MaxMsgs + 1
    /\ cons' = [ConsIdle EXCEPT !.pc = "loadHead", !.tail = tail_, !.entry = tail_,
                                  !.afterEndWrap = ringObs.endWrap]
    /\ UNCHANGED <<head_, tail_, buffer_, stats_messages_written_, stats_messages_read_,
                   stats_messages_dropped_, prod, written, readLog, ringObs,
                   regVars, nodeVars, portVars, reapVars, shmVars, callVars>>

\* uint64_t head = head_.load(acquire); if (tail == head) return false (126-130)
TryReadLoadHead ==
    /\ cons.pc = "loadHead"
    /\ IF cons.tail = head_
       THEN cons' = ConsReturn("false", TRUE)
       ELSE cons' = [cons EXCEPT !.pc = "header", !.head = head_]
    /\ UNCHANGED <<head_, tail_, buffer_, stats_messages_written_, stats_messages_read_,
                   stats_messages_dropped_, prod, written, readLog, ringObs,
                   regVars, nodeVars, portVars, reapVars, shmVars, callVars>>

\* memcpy(&header, &buffer_[tail], sizeof(header)) and the checks on it (132-162)
TryReadHeader ==
    /\ cons.pc = "header"
    /\ \E h \in HeadersAt(buffer_, cons.tail) :
          LET kind == HeaderKind(h.magic, h.length)
          IN  cons' = CASE kind = "pad"  -> [cons EXCEPT !.pc = "pad"]
                        [] kind = "copy" -> [cons EXCEPT !.pc = "copy", !.magic = h.magic,
                                                         !.length = h.length]
                        [] OTHER         -> ConsReturn("false", FALSE)
    /\ UNCHANGED <<head_, tail_, buffer_, stats_messages_written_, stats_messages_read_,
                   stats_messages_dropped_, prod, written, readLog, ringObs,
                   regVars, nodeVars, portVars, reapVars, shmVars, callVars>>

\* tail = 0; tail_.store(0, release); if (tail == head) return false (139-149)
TryReadSkipPadding ==
    /\ cons.pc = "pad"
    /\ tail_' = 0
    /\ ringObs' = [ringObs EXCEPT !.padSkips = 1]
    /\ IF 0 = cons.head
       THEN cons' = ConsReturn("false", FALSE)
       ELSE cons' = [cons EXCEPT !.pc = "header0", !.tail = 0]
    /\ UNCHANGED <<head_, buffer_, stats_messages_written_, stats_messages_read_,
                   stats_messages_dropped_, prod, written, readLog,
                   regVars, nodeVars, portVars, reapVars, shmVars, callVars>>

\* memcpy(&header, &buffer_[tail], sizeof(header)) at offset 0 (150-162)
TryReadHeaderAfterPad ==
    /\ cons.pc = "header0"
    /\ \E h \in HeadersAt(buffer_, cons.tail) :
          cons' = IF HeaderKindAfterPad(h.magic, h.length) = "copy"
                  THEN [cons EXCEPT !.pc = "copy", !.magic = h.magic, !.length = h.length]
                  ELSE ConsReturn("false", FALSE)
    /\ UNCHANGED <<head_, tail_, buffer_, stats_messages_written_, stats_messages_read_,
                   stats_messages_dropped_, prod, written, readLog, ringObs,
                   regVars, nodeVars, portVars, reapVars, shmVars, callVars>>

\* memcpy(out_data, ...); out_size; tail_.store(tail + total_len, release);
\* stats; return true (165-174).  The copy reads what buffer_ holds now.
TryReadCopyStore ==
    /\ cons.pc = "copy"
    /\ NewTail(cons.tail, cons.length) <= BUFFER_SIZE + 8 * OobCells
    /\ readLog' = Append(readLog,
                     [size |-> cons.length,
                      data |-> ReadPayload(buffer_, cons.tail + FrameHeaderSize,
                                           PayloadCells(cons.length))])
    /\ tail_' = NewTail(cons.tail, cons.length)
    /\ stats_messages_read_' = stats_messages_read_ + 1
    /\ cons' = ConsReturn("true", FALSE)
    /\ ringObs' = [ringObs EXCEPT
                    !.unpublished =
                        @ \/ \E off \in FrameOffsets(cons.tail, cons.length) :
                                ~InBuffer(off) \/ (off \div 8) \notin ringObs.live,
                    !.live = @ \ CellsOf(cons.tail, AlignedLen(cons.length))]
    /\ UNCHANGED <<head_, buffer_, stats_messages_written_, stats_messages_dropped_,
                   prod, written,
                   regVars, nodeVars, portVars, reapVars, shmVars, callVars>>

\* The consumer alone: the calls of tryRead.
NextCorrupt ==
    \/ TryReadLoadTail
    \/ TryReadLoadHead
    \/ TryReadHeader
    \/ TryReadSkipPadding
    \/ TryReadHeaderAfterPad
    \/ TryReadCopyStore

NextRing ==
    \/ \E data \in DataPointers, size \in WriteSizes : TryWriteCall(data, size)
    \/ TryWriteLoadHead
    \/ TryWriteLoadTail
    \/ TryWriteCopy
    \/ TryWriteFull
    \/ TryWriteStore
    \/ TryReadLoadTail
    \/ TryReadLoadHead
    \/ TryReadHeader
    \/ TryReadSkipPadding
    \/ TryReadHeaderAfterPad
    \/ TryReadCopyStore



(***************************************************************************)
(* Claims about the ring buffer                                            *)
(***************************************************************************)

\* s is an initial segment of t.
IsPrefix(s, t) == Len(s) <= Len(t) /\ \A k \in 1 .. Len(s) : s[k] = t[k]

\* C1: the k-th successful tryRead returns exactly the bytes and the length
\* accepted by the k-th successful tryWrite (same order, no duplicate, no
\* reordering), under every interleaving of the producer and the consumer.
C1_ReadsAreWritesInOrder == IsPrefix(readLog, written)

\* C2: once a write has wrapped to offset 0 from head == BUFFER_SIZE, the
\* reads that follow return every unread message in write order: what has
\* been read is an initial segment of what was written, and a tryRead begun
\* after the wrap comes back empty-handed only when nothing was unread.
C2_EndWrapReadsAllInOrder ==
    ringObs.endWrap =>
        /\ IsPrefix(readLog, written)
        /\ (cons.pc = "idle" /\ cons.afterEndWrap /\ cons.ret = "false") => cons.empty

\* C3: tryRead returns false if and only if head == tail at the time of the
\* call; whenever head # tail it returns a message.
C3_FalseIffEmpty ==
    (cons.pc = "idle" /\ cons.ret # "none") => (cons.ret = "false" <=> cons.empty)

\* C14: a tryWrite called with a null data pointer, with size 0 or with a
\* size above MAX_MSG_SIZE returns false, and no step of it changes head_,
\* tail_ or the contents of buffer_.
C14_InvalidWriteRejected ==
    [][prod'.invalid =>
          /\ prod'.pc # "fault"
          /\ prod'.ret # "true"
          /\ head_' = head_
          /\ buffer_' = buffer_
          /\ (tail_' = tail_ \/ cons' # cons)]_vars

\* C15: messages_written is the number of tryWrite calls that returned true,
\* messages_read the number of tryRead calls that returned true, their
\* difference the number of accepted messages that no tryRead has returned,
\* and messages_dropped the number of tryWrite calls rejected as full.
C15_StatsCountCalls ==
    /\ stats_messages_written_ = Len(written)
    /\ stats_messages_read_ = Len(readLog)
    /\ stats_messages_written_ - stats_messages_read_ =
          Cardinality({k \in 1 .. Len(written) :
                          \A j \in 1 .. Len(readLog) : readLog[j] # written[k]})
    /\ stats_messages_dropped_ = ringObs.fullRejects

\* C29: head == tail holds exactly when every accepted message has been
\* returned by a tryRead.
C29_EmptyIffAllRead ==
    (head_ = tail_) <=>
        \A k \in 1 .. Len(written) : \E j \in 1 .. Len(readLog) : readLog[j] = written[k]

\* C29: no tryWrite that returns true leaves head equal to tail.
C29_WriteNeverCatchesTail ==
    [][stats_messages_written_' # stats_messages_written_ => head_' # tail_']_vars

\* C30: head and tail are multiples of 8 inside [0, BUFFER_SIZE], and the
\* frame header tryRead is about to read and the frame tryWrite is about
\* to write lie inside buffer_[0, BUFFER_SIZE).
C30_OffsetsAndAccessesInBuffer ==
    /\ head_ % 8 = 0 /\ head_ >= 0 /\ head_ <= BUFFER_SIZE
    /\ tail_ % 8 = 0 /\ tail_ >= 0 /\ tail_ <= BUFFER_SIZE
    /\ cons.pc \in {"header", "header0"} => cons.tail + FrameHeaderSize <= BUFFER_SIZE
    /\ cons.pc = "copy" => cons.tail + AlignedLen(cons.length) <= BUFFER_SIZE
    /\ prod.pc = "store" => prod.newHead <= BUFFER_SIZE


(***************************************************************************)
(* Part II.  GlobalRegistry                                                *)
(***************************************************************************)

NodeIds == {"A", "B"}
Groups == {"g", "h"}
Topics == {"t", "u"}

\* std::map iterates its keys in increasing order.
GroupOrder == <<"g", "h">>
TopicOrder == <<"", "t", "u">>

\* enum TransportType; the precedence SHARED_MEMORY > UDP > INPROCESS is the
\* one stated in registerService (lines 83-85).
TransportTypes == {"INPROCESS", "SHARED_MEMORY", "UDP"}

\* Priority: SHARED_MEMORY > UDP > INPROCESS (registerService, line 83).
TransportRank(transport) ==
    CASE transport = "SHARED_MEMORY" -> 3
      [] transport = "UDP" -> 2
      [] OTHER -> 1

ServiceDescriptor(node_id, group, topic, transport) ==
    [node_id |-> node_id, group |-> group, topic |-> topic, transport |-> transport,
     udp_address |-> ""]

\* The identities the registry is driven with: two topics of one node in one
\* group, a second node in that group, and the first node in a second group.
RegIdentities == {<<"A", "g", "t">>, <<"A", "g", "u">>, <<"B", "g", "t">>, <<"A", "h", "t">>}

RegDescriptors ==
    {ServiceDescriptor(i[1], i[2], i[3], tr) : i \in RegIdentities, tr \in TransportTypes}

Identity(svc) == <<svc.node_id, svc.group, svc.topic>>

\* The descriptors of two nodes for one capability, each with one of two UDP
\* endpoints (svc3a and svc3b of the test PublishFiltering).
UdpAddresses == {"127.0.0.1:10001", "127.0.0.1:10002"}

EndpointDescriptors ==
    {[ServiceDescriptor(id, "g", "t", tr) EXCEPT !.udp_address = a] :
        id \in NodeIds, tr \in TransportTypes, a \in UdpAddresses}

\* std::map operations on functions with a finite domain.
MapHas(m, k) == k \in DOMAIN m
MapPut(m, k, v) == [x \in (DOMAIN m) \cup {k} |-> IF x = k THEN v ELSE m[x]]
MapErase(m, k) == [x \in (DOMAIN m) \ {k} |-> m[x]]
EmptyMap == [x \in {} |-> x]

\* ServiceDescriptor::getCapability(): "group:topic" (comment at line 87).
getCapability(svc) == <<svc.group, svc.topic>>

\* A registerService that appends without looking for the identity.
registerServiceAlwaysAppend(services, group, svc) ==
    MapPut(services, group,
           Append(IF MapHas(services, group) THEN services[group] ELSE <<>>, svc))

\* A registerService in which the last registration wins.
registerServiceLastWins(services, group, svc) ==
    LET vec == IF MapHas(services, group) THEN services[group] ELSE <<>>
        hits == {i \in 1 .. Len(vec) : /\ vec[i].node_id = svc.node_id
                                       /\ getCapability(vec[i]) = getCapability(svc)}
    IN  MapPut(services, group,
               IF hits = {} THEN Append(vec, svc)
               ELSE [vec EXCEPT ![CHOOSE i \in hits : \A j \in hits : i <= j] = svc])

\* GlobalRegistry::registerService: the loop stops at the first element of
\* services_[group] with the same node_id and capability.
registerService(services, group, svc) ==
    LET vec == IF MapHas(services, group) THEN services[group] ELSE <<>>
        hits == {i \in 1 .. Len(vec) : /\ vec[i].node_id = svc.node_id
                                       /\ getCapability(vec[i]) = getCapability(svc)}
        it == CHOOSE i \in hits : \A j \in hits : i <= j
    IN  MapPut(services, group,
               IF hits = {} THEN Append(vec, svc)
               ELSE IF vec[it].transport = svc.transport THEN vec
               ELSE IF vec[it].transport = "SHARED_MEMORY" THEN vec
               ELSE IF svc.transport = "SHARED_MEMORY" THEN [vec EXCEPT ![it] = svc]
               ELSE vec)

\* The vector left by std::remove_if + erase is stored, or the group is
\* erased when the vector is empty.
PutOrErase(services, group, vec) ==
    IF vec = <<>> THEN MapErase(services, group) ELSE MapPut(services, group, vec)

\* GlobalRegistry::unregisterService
\* An unregisterService that matches on the node id alone.
unregisterServiceByNode(services, group, svc) ==
    IF MapHas(services, group)
    THEN PutOrErase(services, group,
                    SelectSeq(services[group], LAMBDA s : s.node_id # svc.node_id))
    ELSE services

unregisterService(services, group, svc) ==
    IF MapHas(services, group)
    THEN PutOrErase(services, group,
                    SelectSeq(services[group],
                              LAMBDA s : ~(s.node_id = svc.node_id /\ s.topic = svc.topic)))
    ELSE services

\* The sweep of services_ in GlobalRegistry::unregisterNode (lines 29-49).
RECURSIVE SweepServices(_, _, _)
SweepServices(services, node_id, k) ==
    IF k > Len(GroupOrder) THEN services
    ELSE SweepServices(IF MapHas(services, GroupOrder[k])
                       THEN PutOrErase(services, GroupOrder[k],
                                       SelectSeq(services[GroupOrder[k]],
                                                 LAMBDA s : s.node_id # node_id))
                       ELSE services,
                       node_id, k + 1)

\* GlobalRegistry::findServices: one group, or every group in key order.
RECURSIVE AllServices(_, _)
AllServices(services, k) ==
    IF k > Len(GroupOrder) THEN <<>>
    ELSE (IF MapHas(services, GroupOrder[k]) THEN services[GroupOrder[k]] ELSE <<>>)
         \o AllServices(services, k + 1)

findServices(services, group) ==
    IF group = "" THEN AllServices(services, 1)
    ELSE IF MapHas(services, group) THEN services[group] ELSE <<>>

\* History kept next to the table: the identity of the latest registerService
\* calls and the transports they carried, in call order, since the last
\* removal, whether the table held no descriptor of the identity when the
\* first of these calls was made, and the udp_address of the latest of them.  `unreg`: when the latest call was an
\* unregisterService, the identity it was given, the number of descriptors
\* it took out and whether the call before it registered that identity.
NoUnreg == [identity |-> <<>>, removed |-> 0, registered |-> FALSE]

\* `lookup`: when the latest call was a getAllNodes or a findNode, the call,
\* its argument, the objects it returned and the keys it erased.
NoLookup == [op |-> "none", node_id |-> "", result |-> {}, erased |-> {}]

RegObs0 == [identity |-> <<>>, transports |-> <<>>, fresh |-> FALSE, unreg |-> NoUnreg,
            lookup |-> NoLookup, udp_address |-> ""]

InitReg ==
    /\ services_ = EmptyMap
    /\ nodes_ = EmptyMap
    /\ regObs = RegObs0

AppendNew(seq, x) == IF \E i \in 1 .. Len(seq) : seq[i] = x THEN seq ELSE Append(seq, x)

\* registry.registerService(svc.group, svc): every caller in the repository
\* passes the descriptor's own group as the key (test_service_cleanup.cpp:43).
RegisterService(svc) ==
    /\ services_' = registerService(services_, svc.group, svc)
    /\ regObs' = IF regObs.identity = Identity(svc)
                 THEN [regObs EXCEPT !.transports = AppendNew(@, svc.transport),
                                     !.unreg = NoUnreg, !.lookup = NoLookup,
                                     !.udp_address = svc.udp_address]
                 ELSE [identity |-> Identity(svc), transports |-> <<svc.transport>>,
                       fresh |-> \A i \in 1 .. Len(findServices(services_, "")) :
                                    Identity(findServices(services_, "")[i]) # Identity(svc),
                       unreg |-> NoUnreg, lookup |-> NoLookup,
                       udp_address |-> svc.udp_address]
    /\ UNCHANGED <<nodes_, ringVars, nodeVars, portVars, reapVars, shmVars, callVars>>

UnregisterService(svc) ==
    /\ services_' = unregisterService(services_, svc.group, svc)
    /\ regObs' = [RegObs0 EXCEPT !.unreg =
                    [identity |-> Identity(svc),
                     removed |-> Len(findServices(services_, ""))
                                    - Len(findServices(unregisterService(services_, svc.group,
                                                                         svc), "")),
                     registered |-> regObs.identity = Identity(svc)]]
    /\ UNCHANGED <<nodes_, ringVars, nodeVars, portVars, reapVars, shmVars, callVars>>

\* GlobalRegistry::unregisterNode(node_id)
UnregisterNode(node_id) ==
    /\ nodes_' = MapErase(nodes_, node_id)
    /\ services_' = SweepServices(services_, node_id, 1)
    /\ regObs' = RegObs0
    /\ UNCHANGED <<ringVars, nodeVars, portVars, reapVars, shmVars, callVars>>

\* GlobalRegistry::clearServices
ClearServices ==
    /\ services_' = EmptyMap
    /\ regObs' = RegObs0
    /\ UNCHANGED <<nodes_, ringVars, nodeVars, portVars, reapVars, shmVars, callVars>>

\* The same calls with descriptors that carry a UDP endpoint.
NextEndpoint ==
    \/ \E svc \in EndpointDescriptors : RegisterService(svc)
    \/ \E svc \in EndpointDescriptors : UnregisterService(svc)
    \/ \E node_id \in NodeIds : UnregisterNode(node_id)
    \/ ClearServices

NextReg ==
    \/ \E svc \in RegDescriptors : RegisterService(svc)
    \/ \E svc \in RegDescriptors : UnregisterService(svc)
    \/ \E node_id \in NodeIds : UnregisterNode(node_id)
    \/ ClearServices


(***************************************************************************)
(* Part V.  UDP timeout check (reaper)                                     *)
(*                                                                         *)
(* The node keeps a RemoteNodeInfo per remote node heard over UDP, stamped *)
(* by handleUdpHeartbeat; checkUdpTimeouts removes the entries whose       *)
(* heartbeat is older than the node timeout and purges their services.     *)
(***************************************************************************)

MaxClock == 6         \* seconds the clock advances per run
MaxReaps == 2         \* runs of the timeout check per run

\* The node timeout, in seconds (node_timeout_ms defaults to 5000).
NODE_TIMEOUT == 5

\* The node that runs the check, and the remote nodes it hears from.
ReapSelfId == "A"
ReapNodeIds == {"B", "X"}

\* The services registered for the remote nodes.
ReapDescriptors == {ServiceDescriptor(id, "g", "t", "UDP") : id \in ReapNodeIds}

\* No run of the check yet.  After a run: the entries it removed, the entries
\* it kept and the descriptors it purged.
ReapObs0 == [runs |-> 0, removed |-> {}, kept |-> {}, purged |-> {}]

InitReap ==
    /\ remote_nodes_ = EmptyMap
    /\ clock = 0
    /\ reapObs = ReapObs0

\* The descriptors the service table holds for a node.
ServicesOfNode(services, node_id) ==
    {findServices(services, "")[i] :
        i \in {k \in 1 .. Len(findServices(services, "")) :
                  findServices(services, "")[k].node_id = node_id}}

\* ALIVE -> DEAD: now - last_heartbeat > timeout.
Expired(info, now) == now - info.last_heartbeat > NODE_TIMEOUT

\* A check that deletes the entries and leaves the service table alone.
purgeNothing(services, dead) == services

\* The service sweep for the nodes declared dead: every descriptor of theirs
\* leaves the table.
RECURSIVE purgeServices(_, _)
purgeServices(services, dead) ==
    IF dead = {} THEN services
    ELSE LET node_id == CHOOSE id \in dead : TRUE
         IN  purgeServices(SweepServices(services, node_id, 1), dead \ {node_id})

\* handleUdpHeartbeat(from_node, addr, port): a heartbeat of the node itself
\* is ignored, another node's entry is created or refreshed.
HandleUdpHeartbeat(from_node) ==
    /\ remote_nodes_' = IF from_node = ReapSelfId THEN remote_nodes_
                        ELSE MapPut(remote_nodes_, from_node, [last_heartbeat |-> clock])
    /\ UNCHANGED <<clock, reapObs, ringVars, regVars, nodeVars, portVars, shmVars, callVars>>

\* Time passes.
Tick ==
    /\ clock < MaxClock
    /\ clock' = clock + 1
    /\ UNCHANGED <<remote_nodes_, reapObs, ringVars, regVars, nodeVars, portVars, shmVars, callVars>>

\* checkUdpTimeouts: one run of the reaper over the remote-node table.
CheckUdpTimeouts ==
    LET dead == {id \in DOMAIN remote_nodes_ : Expired(remote_nodes_[id], clock)}
    IN  /\ reapObs.runs < MaxReaps
        /\ remote_nodes_' = [id \in DOMAIN remote_nodes_ \ dead |-> remote_nodes_[id]]
        /\ services_' = purgeServices(services_, dead)
        /\ regObs' = RegObs0
        /\ reapObs' = [runs |-> reapObs.runs + 1,
                       removed |-> dead,
                       kept |-> DOMAIN remote_nodes_ \ dead,
                       purged |-> UNION {ServicesOfNode(services_, id) : id \in dead}]
        /\ UNCHANGED <<nodes_, clock, ringVars, nodeVars, portVars, shmVars, callVars>>

NextReap ==
    \/ \E from_node \in ReapNodeIds \cup {ReapSelfId} : HandleUdpHeartbeat(from_node)
    \/ Tick
    \/ \E svc \in ReapDescriptors : RegisterService(svc)
    \/ CheckUdpTimeouts


(***************************************************************************)
(* Part VI.  SharedMemoryRegistry                                          *)
(*                                                                         *)
(* The region holds MAX_REGISTRY_ENTRIES slots.  A slot keeps its flags,   *)
(* pid and heartbeat in atomics and its two strings as arrays of 8-byte    *)
(* atomic words.  A string is modelled by its words.                       *)
(***************************************************************************)

MaxEntries == 2       \* slots of the region (MAX_REGISTRY_ENTRIES)
ShmWords == 2         \* 8-byte words per string (NODE_ID_SIZE / 8)
MaxShmClock == 3      \* seconds the clock advances per run
ShmTimeout == 2       \* seconds after which getAllNodes skips an entry

\* The node ids and region names the processes register, as 8-byte words.
ShmNodeIds == {<<"sensor_A", "_front_1">>, <<"sensor_B", "_front_2">>}
ShmNames == {<<"/node_A_", "region_1">>, <<"/node_B_", "region_2">>}

\* Sixty-four zero bytes.
NoWords == [k \in 1 .. ShmWords |-> ""]

\* The process that runs a node: getpid() of the caller of registerNode.
ShmPids == {1, 2}
PidOf(node_id) == IF node_id[1] = "sensor_A" THEN 1 ELSE 2

\* The region a node creates for itself and registers.
ShmNameOf(node_id) ==
    IF node_id[1] = "sensor_A" THEN <<"/node_A_", "region_1">> ELSE <<"/node_B_", "region_2">>

\* The timeouts handed to cleanupStaleNodes, in seconds.
CleanupTimeouts == {1, ShmTimeout}

\* RegistryEntry: flags bit 0 is valid, bit 1 is active.
VALID_ACTIVE == 3

FreeEntry ==
    [flags |-> 0, pid |-> 0, last_heartbeat |-> 0, node_id |-> NoWords, shm_name |-> NoWords]

ShmValid(e) == e.flags % 2 = 1

\* NodeInfo as returned by getAllNodes and findNode.
NodeInfo(e) ==
    [node_id |-> e.node_id, shm_name |-> e.shm_name, pid |-> e.pid,
     last_heartbeat |-> e.last_heartbeat]

\* writeAtomicString: the k-th store of the loop over the words.
writeAtomicString(atomic_array, str, k) == [atomic_array EXCEPT ![k] = str[k]]

\* readAtomicString: the k-th load of the loop over the words.
readAtomicString(atomic_array, sofar, k) == [sofar EXCEPT ![k] = atomic_array[k]]

\* findEntryIndex: the first valid slot with this node_id, 0 for none.
findEntryIndex(region, node_id) ==
    IF \E i \in 1 .. MaxEntries : ShmValid(region[i]) /\ region[i].node_id = node_id
    THEN CHOOSE i \in 1 .. MaxEntries :
            /\ ShmValid(region[i]) /\ region[i].node_id = node_id
            /\ \A j \in 1 .. i - 1 : ~(ShmValid(region[j]) /\ region[j].node_id = node_id)
    ELSE 0

\* findFreeEntryIndex: the first slot whose valid bit is clear, 0 for none.
findFreeEntryIndex(region) ==
    IF \E i \in 1 .. MaxEntries : ~ShmValid(region[i])
    THEN CHOOSE i \in 1 .. MaxEntries :
            ~ShmValid(region[i]) /\ \A j \in 1 .. i - 1 : ShmValid(region[j])
    ELSE 0

\* A registerNode that takes a free slot without looking the node_id up.
shmRegisterNodeNoLookup(region, node_id, shm_name, pid, now) ==
    IF findFreeEntryIndex(region) = 0 THEN [ok |-> FALSE, region |-> region]
    ELSE [ok |-> TRUE,
          region |-> [region EXCEPT ![findFreeEntryIndex(region)] =
                        [flags |-> VALID_ACTIVE, pid |-> pid, last_heartbeat |-> now,
                         node_id |-> node_id, shm_name |-> shm_name]]]

\* registerNode(node_id, shm_name): an entry with this node_id has its
\* heartbeat refreshed; otherwise the first free slot is written and then
\* flagged valid and active; false when the region is full.
shmRegisterNode(region, node_id, shm_name, pid, now) ==
    IF findEntryIndex(region, node_id) # 0
    THEN [ok |-> TRUE,
          region |-> [region EXCEPT ![findEntryIndex(region, node_id)].last_heartbeat = now]]
    ELSE IF findFreeEntryIndex(region) = 0 THEN [ok |-> FALSE, region |-> region]
    ELSE [ok |-> TRUE,
          region |-> [region EXCEPT ![findFreeEntryIndex(region)] =
                        [flags |-> VALID_ACTIVE, pid |-> pid, last_heartbeat |-> now,
                         node_id |-> node_id, shm_name |-> shm_name]]]

\* unregisterNode(node_id): the active bit and then the valid bit are cleared.
shmUnregisterNode(region, node_id) ==
    IF findEntryIndex(region, node_id) = 0 THEN [ok |-> FALSE, region |-> region]
    ELSE [ok |-> TRUE,
          region |-> [region EXCEPT ![findEntryIndex(region, node_id)].flags = 0]]

\* updateHeartbeat(node_id)
updateHeartbeat(region, node_id, now) ==
    IF findEntryIndex(region, node_id) = 0 THEN [ok |-> FALSE, region |-> region]
    ELSE [ok |-> TRUE,
          region |-> [region EXCEPT ![findEntryIndex(region, node_id)].last_heartbeat = now]]

\* isProcessAlive(pid)
isProcessAlive(pid, dead) == pid \notin dead

\* A slot is stale when its heartbeat is older than the timeout or its
\* process has ended.
StaleEntry(e, timeout_ms, now, dead) ==
    now - e.last_heartbeat > timeout_ms \/ ~isProcessAlive(e.pid, dead)

\* A cleanup that looks at the heartbeat only.
cleanupByAgeOnly(region, timeout_ms, now, dead) ==
    [count |-> Cardinality({i \in 1 .. MaxEntries :
                               /\ ShmValid(region[i])
                               /\ now - region[i].last_heartbeat > timeout_ms}),
     region |-> [i \in 1 .. MaxEntries |->
                   IF ShmValid(region[i]) /\ now - region[i].last_heartbeat > timeout_ms
                   THEN FreeEntry ELSE region[i]]]

\* cleanupStaleNodes(timeout_ms): every valid stale slot is cleared; the
\* result is their number.
cleanupStaleNodes(region, timeout_ms, now, dead) ==
    [count |-> Cardinality({i \in 1 .. MaxEntries :
                               /\ ShmValid(region[i])
                               /\ StaleEntry(region[i], timeout_ms, now, dead)}),
     region |-> [i \in 1 .. MaxEntries |->
                   IF ShmValid(region[i]) /\ StaleEntry(region[i], timeout_ms, now, dead)
                   THEN FreeEntry ELSE region[i]]]

\* getAllNodes(): the valid slots that are not stale under its timeout.
shmGetAllNodes(region, now, dead) ==
    {NodeInfo(region[i]) : i \in {j \in 1 .. MaxEntries :
                                    /\ ShmValid(region[j])
                                    /\ ~StaleEntry(region[j], ShmTimeout, now, dead)}}

\* findNode(node_id, info): the entries found, none or one.
shmFindNode(region, node_id) ==
    IF findEntryIndex(region, node_id) = 0 THEN {}
    ELSE {NodeInfo(region[findEntryIndex(region, node_id)])}

\* nodeExists(node_id)
nodeExists(region, node_id) == findEntryIndex(region, node_id) # 0

\* No registerNode is writing a slot.
WrIdle == [pc |-> "idle", idx |-> 0, k |-> 0, node_id |-> NoWords, shm_name |-> NoWords]

\* No getAllNodes is reading the region.  `out` keeps the NodeInfo the
\* latest scan has collected, each with the valid bit of its slot at the
\* moment of the last load.
RdIdle == [pc |-> "idle", idx |-> 0, k |-> 0, node_id |-> NoWords, shm_name |-> NoWords,
           out |-> {}]

\* The latest call: its name and arguments, the region and the clock it
\* found, its result and the entries it listed; and per node_id the
\* shm_name of the registerNode call that created its entry.
ShmObs0 ==
    [op |-> "none", node_id |-> NoWords, shm_name |-> NoWords, timeout_ms |-> 0,
     before |-> [i \in 1 .. MaxEntries |-> FreeEntry], ok |-> FALSE, count |-> 0,
     listed |-> {}, created |-> [id \in ShmNodeIds |-> NoWords]]

\* initialize() of the first process: a zeroed region.
InitShm ==
    /\ entries = [i \in 1 .. MaxEntries |-> FreeEntry]
    /\ shmNow = 0
    /\ deadPids = {}
    /\ wr = WrIdle
    /\ rd = RdIdle
    /\ shmObs = ShmObs0

\* The shm_name under which each node_id is remembered after a call.
CreatedAfter(region, created) ==
    [id \in ShmNodeIds |-> IF findEntryIndex(region, id) = 0 THEN NoWords ELSE created[id]]

\* registry.registerNode(node_id, shm_name) by the process of the node
ShmRegister(node_id, shm_name) ==
    LET r == shmRegisterNode(entries, node_id, shm_name, PidOf(node_id), shmNow)
    IN  /\ PidOf(node_id) \notin deadPids
        /\ entries' = r.region
        /\ shmObs' = [ShmObs0 EXCEPT
                        !.op = "registerNode", !.node_id = node_id, !.shm_name = shm_name,
                        !.before = entries, !.ok = r.ok,
                        !.created =
                            CreatedAfter(r.region,
                                         IF findEntryIndex(entries, node_id) = 0
                                         THEN [shmObs.created EXCEPT ![node_id] = shm_name]
                                         ELSE shmObs.created)]
        /\ UNCHANGED <<shmNow, deadPids, wr, rd, ringVars, regVars, nodeVars, portVars,
                   reapVars, callVars>>

\* registry.unregisterNode(node_id)
ShmUnregister(node_id) ==
    LET r == shmUnregisterNode(entries, node_id)
    IN  /\ entries' = r.region
        /\ shmObs' = [ShmObs0 EXCEPT
                        !.op = "unregisterNode", !.node_id = node_id, !.before = entries,
                        !.ok = r.ok, !.created = CreatedAfter(r.region, shmObs.created)]
        /\ UNCHANGED <<shmNow, deadPids, wr, rd, ringVars, regVars, nodeVars, portVars,
                   reapVars, callVars>>

\* registry.updateHeartbeat(node_id) by the process of the node
ShmUpdateHeartbeat(node_id) ==
    LET r == updateHeartbeat(entries, node_id, shmNow)
    IN  /\ PidOf(node_id) \notin deadPids
        /\ entries' = r.region
        /\ shmObs' = [ShmObs0 EXCEPT
                        !.op = "updateHeartbeat", !.node_id = node_id, !.before = entries,
                        !.ok = r.ok, !.created = shmObs.created]
        /\ UNCHANGED <<shmNow, deadPids, wr, rd, ringVars, regVars, nodeVars, portVars,
                   reapVars, callVars>>

\* registry.cleanupStaleNodes(timeout_ms)
ShmCleanup(timeout_ms) ==
    LET r == cleanupStaleNodes(entries, timeout_ms, shmNow, deadPids)
    IN  /\ entries' = r.region
        /\ shmObs' = [ShmObs0 EXCEPT
                        !.op = "cleanupStaleNodes", !.timeout_ms = timeout_ms,
                        !.before = entries, !.count = r.count,
                        !.listed = shmGetAllNodes(r.region, shmNow, deadPids),
                        !.created = CreatedAfter(r.region, shmObs.created)]
        /\ UNCHANGED <<shmNow, deadPids, wr, rd, ringVars, regVars, nodeVars, portVars,
                   reapVars, callVars>>

\* registry.getAllNodes()
ShmGetAllNodes ==
    /\ shmObs' = [ShmObs0 EXCEPT
                    !.op = "getAllNodes", !.before = entries,
                    !.listed = shmGetAllNodes(entries, shmNow, deadPids),
                    !.created = shmObs.created]
    /\ UNCHANGED <<entries, shmNow, deadPids, wr, rd, ringVars, regVars, nodeVars, portVars,
                   reapVars, callVars>>

\* registry.findNode(node_id, info)
ShmFindNode(node_id) ==
    /\ shmObs' = [ShmObs0 EXCEPT
                    !.op = "findNode", !.node_id = node_id, !.before = entries,
                    !.ok = shmFindNode(entries, node_id) # {},
                    !.listed = shmFindNode(entries, node_id),
                    !.created = shmObs.created]
    /\ UNCHANGED <<entries, shmNow, deadPids, wr, rd, ringVars, regVars, nodeVars, portVars,
                   reapVars, callVars>>

\* A second passes.
ShmTick ==
    /\ shmNow < MaxShmClock
    /\ shmNow' = shmNow + 1
    /\ shmObs' = [ShmObs0 EXCEPT !.created = shmObs.created]
    /\ UNCHANGED <<entries, deadPids, wr, rd, ringVars, regVars, nodeVars, portVars,
                   reapVars, callVars>>

\* A process ends without unregistering its node.
ProcessDies(pid) ==
    /\ pid \notin deadPids
    /\ deadPids' = deadPids \cup {pid}
    /\ shmObs' = [ShmObs0 EXCEPT !.created = shmObs.created]
    /\ UNCHANGED <<entries, shmNow, wr, rd, ringVars, regVars, nodeVars, portVars,
                   reapVars, callVars>>

NextShm ==
    \/ \E node_id \in ShmNodeIds, shm_name \in ShmNames : ShmRegister(node_id, shm_name)
    \/ \E node_id \in ShmNodeIds : ShmUnregister(node_id)
    \/ \E node_id \in ShmNodeIds : ShmUpdateHeartbeat(node_id)
    \/ \E timeout_ms \in CleanupTimeouts : ShmCleanup(timeout_ms)
    \/ ShmGetAllNodes
    \/ \E node_id \in ShmNodeIds : ShmFindNode(node_id)
    \/ ShmTick
    \/ \E pid \in ShmPids : ProcessDies(pid)

\* --------------------------------------------- a reader beside the writers

\* registerNode begins in another process: the lookup and the choice of the
\* slot.  A node_id that is present has its heartbeat refreshed at once.
WrRegisterBegin(node_id, shm_name) ==
    /\ wr.pc = "idle"
    /\ IF findEntryIndex(entries, node_id) # 0 \/ findFreeEntryIndex(entries) = 0
       THEN /\ entries' = shmRegisterNode(entries, node_id, shm_name, PidOf(node_id),
                                          shmNow).region
            /\ UNCHANGED wr
       ELSE /\ wr' = [pc |-> "node_id", idx |-> findFreeEntryIndex(entries), k |-> 1,
                      node_id |-> node_id, shm_name |-> shm_name]
            /\ UNCHANGED entries
    /\ UNCHANGED <<shmNow, deadPids, rd, shmObs, ringVars, regVars, nodeVars, portVars,
                   reapVars, callVars>>

\* One store of writeAtomicString into the slot, for the id and then the name.
WrStoreWord ==
    /\ wr.pc \in {"node_id", "shm_name"}
    /\ entries' = IF wr.pc = "node_id"
                  THEN [entries EXCEPT ![wr.idx].node_id =
                           writeAtomicString(@, wr.node_id, wr.k)]
                  ELSE [entries EXCEPT ![wr.idx].shm_name =
                           writeAtomicString(@, wr.shm_name, wr.k)]
    /\ wr' = IF wr.k < ShmWords THEN [wr EXCEPT !.k = @ + 1]
             ELSE [wr EXCEPT !.k = 1,
                             !.pc = IF wr.pc = "node_id" THEN "shm_name" ELSE "flags"]
    /\ UNCHANGED <<shmNow, deadPids, rd, shmObs, ringVars, regVars, nodeVars, portVars,
                   reapVars, callVars>>

\* The pid and the heartbeat are stored and the slot is flagged valid and
\* active: registerNode returns.
WrPublish ==
    /\ wr.pc = "flags"
    /\ entries' = [entries EXCEPT ![wr.idx].pid = PidOf(wr.node_id),
                                  ![wr.idx].last_heartbeat = shmNow,
                                  ![wr.idx].flags = VALID_ACTIVE]
    /\ wr' = WrIdle
    /\ UNCHANGED <<shmNow, deadPids, rd, shmObs, ringVars, regVars, nodeVars, portVars,
                   reapVars, callVars>>

\* unregisterNode in another process.
WrUnregister(node_id) ==
    /\ wr.pc = "idle"
    /\ shmUnregisterNode(entries, node_id).ok
    /\ entries' = shmUnregisterNode(entries, node_id).region
    /\ UNCHANGED <<shmNow, deadPids, wr, rd, shmObs, ringVars, regVars, nodeVars, portVars,
                   reapVars, callVars>>

\* The slot the scan turns to after slot idx, or its end.
RdNext(out) ==
    IF rd.idx < MaxEntries
    THEN [RdIdle EXCEPT !.pc = "flags", !.idx = rd.idx + 1, !.out = out]
    ELSE [RdIdle EXCEPT !.out = out]

\* getAllNodes begins its scan.
RdBegin ==
    /\ rd.pc = "idle"
    /\ rd' = [RdIdle EXCEPT !.pc = "flags", !.idx = 1]
    /\ UNCHANGED <<entries, shmNow, deadPids, wr, shmObs, ringVars, regVars, nodeVars,
                   portVars, reapVars, callVars>>

\* The scan loads the flags of a slot and passes it by unless it is valid.
RdFlags ==
    /\ rd.pc = "flags"
    /\ rd' = IF ShmValid(entries[rd.idx])
             THEN [rd EXCEPT !.pc = "node_id", !.k = 1]
             ELSE RdNext(rd.out)
    /\ UNCHANGED <<entries, shmNow, deadPids, wr, shmObs, ringVars, regVars, nodeVars,
                   portVars, reapVars, callVars>>

\* One load of readAtomicString from the slot, for the id and then the name;
\* after the last the NodeInfo is added to the result.
RdLoadWord ==
    /\ rd.pc \in {"node_id", "shm_name"}
    /\ LET node_id == IF rd.pc = "node_id"
                      THEN readAtomicString(entries[rd.idx].node_id, rd.node_id, rd.k)
                      ELSE rd.node_id
           shm_name == IF rd.pc = "shm_name"
                       THEN readAtomicString(entries[rd.idx].shm_name, rd.shm_name, rd.k)
                       ELSE rd.shm_name
       IN  rd' = IF rd.k < ShmWords
                 THEN [rd EXCEPT !.k = @ + 1, !.node_id = node_id, !.shm_name = shm_name]
                 ELSE IF rd.pc = "node_id"
                 THEN [rd EXCEPT !.k = 1, !.pc = "shm_name", !.node_id = node_id]
                 ELSE RdNext(rd.out \cup {[node_id |-> node_id, shm_name |-> shm_name,
                                             valid_after |-> ShmValid(entries[rd.idx])]})
    /\ UNCHANGED <<entries, shmNow, deadPids, wr, shmObs, ringVars, regVars, nodeVars,
                   portVars, reapVars, callVars>>

NextTorn ==
    \/ \E node_id \in ShmNodeIds : WrRegisterBegin(node_id, ShmNameOf(node_id))
    \/ WrStoreWord
    \/ WrPublish
    \/ \E node_id \in ShmNodeIds : WrUnregister(node_id)
    \/ RdBegin
    \/ RdFlags
    \/ RdLoadWord

\* ------------------------------------------- two processes that register

\* No registerNode of the process is in progress.  `ok`: the result of its
\* call, once it has returned ("done"); `overlapped`: the call of the other
\* process was in progress at some moment of this one.
RegIdle == [pc |-> "idle", idx |-> 0, k |-> 0, node_id |-> NoWords, shm_name |-> NoWords,
            ok |-> FALSE, overlapped |-> FALSE]

\* The node each process runs.
NodeOfPid(pid) == CHOOSE node_id \in ShmNodeIds : PidOf(node_id) = pid

InCall(r) == r.pc \notin {"idle", "done"}

\* registerNode begins in process pid: the lookup and the choice of the
\* slot.  A node_id that is present has its heartbeat refreshed and a full
\* region is refused at once.
RaceRegisterBegin(pid) ==
    /\ regs[pid].pc = "idle"
    /\ LET node_id == NodeOfPid(pid)
           shm_name == ShmNameOf(node_id)
           r == shmRegisterNode(entries, node_id, shm_name, pid, shmNow)
       IN  IF findEntryIndex(entries, node_id) # 0 \/ findFreeEntryIndex(entries) = 0
           THEN /\ entries' = r.region
                /\ regs' = [regs EXCEPT ![pid] =
                              [RegIdle EXCEPT !.pc = "done", !.node_id = node_id,
                                              !.shm_name = shm_name, !.ok = r.ok,
                                              !.idx = findEntryIndex(entries, node_id)]]
           ELSE /\ regs' = [q \in ShmPids |->
                              IF q = pid
                              THEN [RegIdle EXCEPT !.pc = "node_id", !.k = 1,
                                                   !.idx = findFreeEntryIndex(entries),
                                                   !.node_id = node_id,
                                                   !.shm_name = shm_name,
                                                   !.overlapped =
                                                       \E o \in ShmPids \ {pid} :
                                                           InCall(regs[o])]
                              ELSE [regs[q] EXCEPT !.overlapped = @ \/ InCall(regs[q])]]
                /\ UNCHANGED entries
    /\ UNCHANGED <<shmNow, deadPids, wr, rd, shmObs, subscriptions_mutex_, stack, unregCall,
                   ringVars, regVars, nodeVars, portVars, reapVars>>

\* One store of writeAtomicString into the chosen slot, for the id and
\* then the name.
RaceStoreWord(pid) ==
    /\ regs[pid].pc \in {"node_id", "shm_name"}
    /\ entries' = IF regs[pid].pc = "node_id"
                  THEN [entries EXCEPT ![regs[pid].idx].node_id =
                           writeAtomicString(@, regs[pid].node_id, regs[pid].k)]
                  ELSE [entries EXCEPT ![regs[pid].idx].shm_name =
                           writeAtomicString(@, regs[pid].shm_name, regs[pid].k)]
    /\ regs' = [regs EXCEPT ![pid] =
                  IF regs[pid].k < ShmWords THEN [@ EXCEPT !.k = @ + 1]
                  ELSE [@ EXCEPT !.k = 1,
                                 !.pc = IF regs[pid].pc = "node_id" THEN "shm_name"
                                        ELSE "flags"]]
    /\ UNCHANGED <<shmNow, deadPids, wr, rd, shmObs, subscriptions_mutex_, stack, unregCall,
                   ringVars, regVars, nodeVars, portVars, reapVars>>

\* The pid and the heartbeat are stored and the slot is flagged valid and
\* active: registerNode returns true.
RacePublish(pid) ==
    /\ regs[pid].pc = "flags"
    /\ entries' = [entries EXCEPT ![regs[pid].idx].pid = pid,
                                  ![regs[pid].idx].last_heartbeat = shmNow,
                                  ![regs[pid].idx].flags = VALID_ACTIVE]
    /\ regs' = [regs EXCEPT ![pid].pc = "done", ![pid].ok = TRUE]
    /\ UNCHANGED <<shmNow, deadPids, wr, rd, shmObs, subscriptions_mutex_, stack, unregCall,
                   ringVars, regVars, nodeVars, portVars, reapVars>>

\* The race runs: each of two processes registers its node once, and the
\* region is looked up in between.
NextRace ==
    \/ \E pid \in ShmPids : RaceRegisterBegin(pid)
    \/ \E pid \in ShmPids : RaceStoreWord(pid)
    \/ \E pid \in ShmPids : RacePublish(pid)
    \/ ShmGetAllNodes
    \/ \E node_id \in ShmNodeIds : ShmFindNode(node_id)


(***************************************************************************)
(* Part IV.  UDP port selection of NodeImpl::initialize                    *)
(***************************************************************************)

MaxInits == 3         \* nodes initialised with udp_port 0 per run

\* Port range constants for node discovery (lines 14-16)
PORT_BASE == 47200
PORT_MAX == 47999
PORT_COUNT == PORT_MAX - PORT_BASE + 1

PortRange == PORT_BASE .. PORT_MAX

\* uint16_t arithmetic
U16(n) == n % 65536

\* now.time_since_epoch().count() % 800 (lines 128-130): the offsets followed.
RandomOffsets == {0, 1, PORT_COUNT - 2, PORT_COUNT - 1}

\* The ports the system hands to a socket bound to port 0.
EphemeralPorts == {32768, 60999}

\* The ports other processes hold while the process runs: none, the first of
\* the range, or the whole range.
BusyChoices == {{}, {PORT_BASE}, PortRange}

\* No initialize() in progress.  `hadFree` is history: a port of the range
\* was free when the call began.
InitIdle == [pc |-> "idle", attempts |-> 0, target_port |-> 0, bound |-> FALSE,
             hadFree |-> FALSE]

\* Process start: no node has been initialised.
InitPort ==
    /\ next_port = 0
    /\ udp_ports = <<>>
    /\ portBusy = {}
    /\ initCall = InitIdle

\* The ports held by a socket of the host.
HeldPorts == portBusy \cup {udp_ports[i] : i \in 1 .. Len(udp_ports)}

\* UdpTransport::initialize(port): the ports it may end up bound to.  Port 0
\* lets the system choose; a port held by another socket fails to bind.
UdpTransportInitialize(port) ==
    IF port = 0 THEN EphemeralPorts \ HeldPorts
    ELSE IF port \in HeldPorts THEN {}
    ELSE {port}

\* compare_exchange_strong(expected, PORT_BASE) with expected == target_port
\* (lines 140-141): the counter afterwards.  `counter` is the value the
\* fetch_add before it left behind.
wrapAround(target_port, counter) ==
    IF counter = target_port THEN PORT_BASE ELSE counter

\* initialize(0) begins (lines 119-131): the first use stores a start value.
InitializeCall ==
    /\ initCall.pc = "idle"
    /\ Len(udp_ports) < MaxInits
    /\ \E random_offset \in RandomOffsets :
          next_port' = IF next_port = 0 THEN U16(PORT_BASE + random_offset) ELSE next_port
    /\ initCall' = [InitIdle EXCEPT !.pc = "loop",
                                    !.hadFree = PortRange \ HeldPorts # {}]
    /\ UNCHANGED <<udp_ports, portBusy, ringVars, regVars, nodeVars, reapVars, shmVars, callVars>>

\* One round of the loop (lines 134-146), or its end.
TryPort ==
    /\ initCall.pc = "loop"
    /\ IF initCall.attempts < PORT_COUNT /\ ~initCall.bound
       THEN LET first == next_port
                after1 == U16(next_port + 1)
                reset == wrapAround(first, after1)
                target_port == IF first > PORT_MAX THEN reset ELSE first
                after2 == IF first > PORT_MAX THEN U16(reset + 1) ELSE after1
            IN  /\ next_port' = after2
                /\ IF UdpTransportInitialize(target_port) = {}
                   THEN initCall' = [initCall EXCEPT !.attempts = @ + 1,
                                                     !.target_port = target_port]
                   ELSE \E port \in UdpTransportInitialize(target_port) :
                           initCall' = [initCall EXCEPT !.attempts = @ + 1,
                                                        !.target_port = port,
                                                        !.bound = TRUE]
       ELSE /\ initCall' = [initCall EXCEPT !.pc = IF initCall.bound THEN "bound"
                                                   ELSE "fallback"]
            /\ UNCHANGED next_port
    /\ UNCHANGED <<udp_ports, portBusy, ringVars, regVars, nodeVars, reapVars, shmVars, callVars>>

\* If still not bound, let system choose (lines 148-151).
LetSystemChoose ==
    /\ initCall.pc = "fallback"
    /\ IF UdpTransportInitialize(0) = {}
       THEN initCall' = [initCall EXCEPT !.pc = "bound", !.target_port = 0]
       ELSE \E port \in UdpTransportInitialize(0) :
               initCall' = [initCall EXCEPT !.pc = "bound", !.target_port = port,
                                            !.bound = TRUE]
    /\ UNCHANGED <<next_port, udp_ports, portBusy, ringVars, regVars, nodeVars, reapVars, shmVars, callVars>>

\* initialize returns (lines 153-160); getUdpPort() is the port of the socket,
\* 0 without one.
InitializeReturn ==
    /\ initCall.pc = "bound"
    /\ udp_ports' = Append(udp_ports, IF initCall.bound THEN initCall.target_port ELSE 0)
    /\ initCall' = InitIdle
    /\ UNCHANGED <<next_port, portBusy, ringVars, regVars, nodeVars, reapVars, shmVars, callVars>>

NextPort ==
    \/ InitializeCall
    \/ TryPort
    \/ LetSystemChoose
    \/ InitializeReturn


(***************************************************************************)
(* Part III.  NodeImpl                                                     *)
(***************************************************************************)

MaxObjs == 3          \* NodeImpl objects created per run
MaxPeers == 2         \* of them, in the lifecycle and delivery runs

\* The NodeImpl objects (their addresses); node ids are chosen at creation.
Objs == 1 .. MaxObjs

\* A NodeImpl object: "none" before make_shared, "alive" while a strong
\* reference exists, "dead" after the destructor.
NoObject ==
    [life |-> "none", node_id_ |-> "", running_ |-> FALSE,
     subscriptions_ |-> EmptyMap, remote_nodes_ |-> EmptyMap]

\* NodeImpl::NodeImpl (lines 32-38): running_ is true, the tables are empty.
NewObject(node_id) ==
    [life |-> "alive", node_id_ |-> node_id, running_ |-> TRUE,
     subscriptions_ |-> EmptyMap, remote_nodes_ |-> EmptyMap]

\* The object after NodeImpl::~NodeImpl: its members are gone.
DeadObject == [NoObject EXCEPT !.life = "dead"]

Alive(o) == objs[o].life = "alive"

\* A lock() that hands out the object whether or not it still exists.
lockDangling(o) == o

\* std::weak_ptr::lock() on a registry entry: the object, or 0 when expired.
Lock(o) == IF objs[o].life = "alive" THEN o ELSE 0

\* The discovery runs: the new node is the first object, in a process of its
\* own whose port counter began at PORT_BASE + 400; the other objects are
\* nodes of a second process, the o-th of them bound by its o-th initialize().
NewNode == 1
DiscPeers == {2, 3}
DiscIds == <<"A", "B", "C">>
NewNodePort == PORT_BASE + 400

\* The announce runs: three nodes of one host, each in a process of its own
\* that bound the next port of the range.  The first is a publisher that
\* never subscribes and owns the in-process registry of the model; the
\* others subscribe.
AnnP == 1
AnnS == MaxObjs
AnnPeers == {2, AnnS}
AnnIds == <<"A", "B", "C">>

\* udp_transport_->getPort(): every socket of the host has a port of its own;
\* in the discovery runs it is the port initialize() bound.
PortOf(o) ==
    IF nodeObs.watch = "announce" THEN PORT_BASE + (o - 1)
    ELSE IF nodeObs.watch # "discovery" THEN o
    ELSE IF o = NewNode THEN NewNodePort
    ELSE IF o <= Len(udp_ports) THEN udp_ports[o]
    ELSE 0

\* broadcast() not running on the object.  `must` is history: the nodes that
\* have been alive and subscribed to the key since the call began.
PubIdle == [pc |-> "idle", group |-> "", topic |-> "", payload |-> 0, nodes |-> <<>>,
            must |-> {}]

\* No subscribe/unsubscribe pair under observation.
NoPair == [phase |-> "none", o |-> 0, group |-> "", topics |-> <<>>,
           before |-> <<>>, after |-> <<>>]

\* No call of the node interface under observation.  A call is recorded with
\* its arguments, its result code, the subscription table it found, the
\* announcements (type, group, topic) it handed to broadcastSubscription and
\* the number of publishes begun before it.
NoCall == [op |-> "none", o |-> 0, group |-> "", topics |-> <<>>, callback |-> "null",
           err |-> "none", before |-> EmptyMap, announced |-> {}, mark |-> 0]

\* History of the calls: the number of publishes begun (it numbers the
\* payloads), per object the number of publishes begun when its latest
\* unsubscribe from WatchKey returned (-1: none, or subscribed again since),
\* the objects for which that unsubscribe took WatchKey out of the table,
\* the broadcasts that returned NO_ERROR as (payload, publisher), the
\* subscribers the latest of them left out, whether a node has
\* received a datagram of its own, and the subscribe/unsubscribe pair made by
\* the latest calls, the latest interface call and, when that and the call
\* before it were successful subscribes, the call before it.  `watch` selects
\* the history that is kept: "delivery" and "order" keep the publish
\* bookkeeping, "pair" keeps the subscribe/unsubscribe pair and the latest
\* call, "resubscribe" keeps the latest call and the subscribe before it.
\* `escaped`: an exception of a callback has left handleMessage.  `rx`: in
\* the "self" runs, the latest control packet handed to a receive callback,
\* as the object, the message type and the sender id.
NoRx == [o |-> 0, msg_type |-> "", node_id |-> ""]

\* `disc`: in the discovery runs, whether the new node has started, the
\* ports its queryExistingSubscriptions sent to, the (object, group, topic)
\* subscriptions of the live nodes of the other process at that moment and
\* whether a control datagram has been lost since.
NoDisc == [started |-> FALSE, probed |-> {}, known |-> {}, lost |-> FALSE]

\* `ann`: in the announce runs, whether the subscriber AnnS has subscribed
\* to WatchKey while the publisher was running, and the ids its remote-node
\* table held at the first such call.
NoAnn == [made |-> FALSE, peers |-> {}]

NodeObs0 == [watch |-> "delivery", published |-> 0, barrier |-> [o \in Objs |-> -1],
             removed |-> {}, returned |-> {}, missing |-> {}, selfDrop |-> FALSE, pair |-> NoPair,
             call |-> NoCall, prev |-> NoCall, escaped |-> FALSE, rx |-> NoRx,
             disc |-> NoDisc, ann |-> NoAnn]

\* The runs that keep the latest interface call.
CallWatched == nodeObs.watch \in {"pair", "resubscribe", "order"}

\* The threads of the process that call broadcast() in the lock runs.
Threads == {1, 2}

\* No unregisterNode call is in progress.  `erased`: the call found the id
\* in the node map.
UnregIdle == [pc |-> "idle", node_id |-> "", erased |-> FALSE]

\* No subscription lock is held and no thread or process is in a call.
InitCalls ==
    /\ subscriptions_mutex_ = [o \in Objs |-> 0]
    /\ stack = [th \in Threads |-> <<>>]
    /\ unregCall = UnregIdle
    /\ regs = [p \in ShmPids |-> RegIdle]

InitNode ==
    /\ objs = [o \in Objs |-> NoObject]
    /\ node_registry_ = EmptyMap
    /\ net = {}
    /\ pub = [o \in Objs |-> PubIdle]
    /\ cbLog = {}
    /\ nodeObs = NodeObs0

Init == InitRing /\ InitReg /\ InitNode /\ InitPort /\ InitReap /\ InitShm /\ InitCalls

\* The same start, with other processes holding ports of the range.
InitBusy ==
    /\ InitRing
    /\ InitReg
    /\ InitNode
    /\ InitReap
    /\ InitShm /\ InitCalls
    /\ next_port = 0
    /\ udp_ports = <<>>
    /\ portBusy \in BusyChoices
    /\ initCall = InitIdle

\* The start of the runs over damaged ring contents: the consumer is about
\* to read a buffer whose cells hold any header.
InitCorrupt == InitRingCorrupt /\ InitReg /\ InitNode /\ InitPort /\ InitReap /\ InitShm /\ InitCalls

\* The same start, with the subscribe/unsubscribe pairs under observation.
InitSub ==
    /\ InitRing
    /\ InitReg
    /\ InitPort
    /\ InitReap
    /\ InitShm /\ InitCalls
    /\ objs = [o \in Objs |-> NoObject]
    /\ node_registry_ = EmptyMap
    /\ net = {}
    /\ pub = [o \in Objs |-> PubIdle]
    /\ cbLog = {}
    /\ nodeObs = [NodeObs0 EXCEPT !.watch = "pair"]

\* The same start, with the repeated subscribes under observation.
InitResub ==
    /\ InitRing
    /\ InitReg
    /\ InitPort
    /\ InitReap
    /\ InitShm /\ InitCalls
    /\ objs = [o \in Objs |-> NoObject]
    /\ node_registry_ = EmptyMap
    /\ net = {}
    /\ pub = [o \in Objs |-> PubIdle]
    /\ cbLog = {}
    /\ nodeObs = [NodeObs0 EXCEPT !.watch = "resubscribe"]

\* The same start, with the discovery of a node that starts late under
\* observation; another process may hold the first port of the range.
InitDisc ==
    /\ InitRing
    /\ InitReg
    /\ InitReap
    /\ InitShm /\ InitCalls
    /\ next_port = 0
    /\ udp_ports = <<>>
    /\ portBusy \in {{}, {PORT_BASE}}
    /\ initCall = InitIdle
    /\ objs = [o \in Objs |-> NoObject]
    /\ node_registry_ = EmptyMap
    /\ net = {}
    /\ pub = [o \in Objs |-> PubIdle]
    /\ cbLog = {}
    /\ nodeObs = [NodeObs0 EXCEPT !.watch = "discovery"]

\* The same start, with the announcements of subscribes between processes
\* under observation.
InitAnnounce ==
    /\ InitRing
    /\ InitReg
    /\ InitPort
    /\ InitReap
    /\ InitShm /\ InitCalls
    /\ objs = [o \in Objs |-> NoObject]
    /\ node_registry_ = EmptyMap
    /\ net = {}
    /\ pub = [o \in Objs |-> PubIdle]
    /\ cbLog = {}
    /\ nodeObs = [NodeObs0 EXCEPT !.watch = "announce"]

\* The same start, with the packets that carry the receiver's id under
\* observation.
InitSelf ==
    /\ InitRing
    /\ InitReg
    /\ InitPort
    /\ InitReap
    /\ InitShm /\ InitCalls
    /\ objs = [o \in Objs |-> NoObject]
    /\ node_registry_ = EmptyMap
    /\ net = {}
    /\ pub = [o \in Objs |-> PubIdle]
    /\ cbLog = {}
    /\ nodeObs = [NodeObs0 EXCEPT !.watch = "self"]

\* The same start, with publishes made one after another under observation.
InitOrder ==
    /\ InitRing
    /\ InitReg
    /\ InitPort
    /\ InitReap
    /\ InitShm /\ InitCalls
    /\ objs = [o \in Objs |-> NoObject]
    /\ node_registry_ = EmptyMap
    /\ net = {}
    /\ pub = [o \in Objs |-> PubIdle]
    /\ cbLog = {}
    /\ nodeObs = [NodeObs0 EXCEPT !.watch = "order"]

\* NodeImpl::registerNode: node_registry_[node_id_] = shared_from_this()
registerNode(registry, node_id, o) == MapPut(registry, node_id, o)

\* NodeImpl::unregisterNode: node_registry_.erase(node_id_)
unregisterNode(registry, node_id) == MapErase(registry, node_id)

\* createNode(node_id): make_shared<NodeImpl>(node_id, true, 0) and
\* initialize(0).  An empty node_id is replaced by generateNodeId(), a
\* millisecond timestamp, so two nodes can carry one id either way.
\* Objects are numbered in creation order.
CreateNode(o, node_id) ==
    /\ objs[o].life = "none"
    /\ \A p \in Objs : p < o => objs[p].life # "none"
    /\ objs' = [objs EXCEPT ![o] = NewObject(node_id)]
    /\ node_registry_' = registerNode(node_registry_, node_id, o)
    /\ nodeObs' = [nodeObs EXCEPT !.pair = NoPair]
    /\ UNCHANGED <<net, pub, cbLog, ringVars, regVars, portVars, reapVars, shmVars, callVars>>

\* The strong references held by a broadcast() in progress: the publisher
\* itself and the vector returned by getAllNodes().
HeldBy(p) == IF pub[p].pc = "idle" THEN {}
             ELSE {p} \cup {pub[p].nodes[i] : i \in 1 .. Len(pub[p].nodes)}

\* The destructor has begun on another thread: running_ = false (line 41).
\* Until it ends, a caller that still reaches the object finds it not running.
StopRunning(o) ==
    /\ Alive(o)
    /\ objs[o].running_
    /\ \A p \in Objs : o \notin HeldBy(p)
    /\ objs' = [objs EXCEPT ![o].running_ = FALSE]
    /\ nodeObs' = [nodeObs EXCEPT !.pair = NoPair, !.call = NoCall, !.prev = NoCall]
    /\ UNCHANGED <<node_registry_, net, pub, cbLog, ringVars, regVars, portVars, reapVars, shmVars, callVars>>

\* The last strong reference is dropped: NodeImpl::~NodeImpl (lines 40-50).
\* It unregisters with NodeImpl::unregisterNode only.
DestroyNode(o) ==
    /\ Alive(o)
    /\ \A p \in Objs : o \notin HeldBy(p)
    /\ objs' = [objs EXCEPT ![o] = DeadObject]
    /\ node_registry_' = unregisterNode(node_registry_, objs[o].node_id_)
    /\ nodeObs' = [nodeObs EXCEPT !.barrier[o] = -1, !.removed = @ \ {o}, !.pair = NoPair]
    /\ pub' = [p \in Objs |-> [pub[p] EXCEPT !.must = @ \ {o}]]
    /\ UNCHANGED <<net, cbLog, ringVars, regVars, portVars, reapVars, shmVars, callVars>>

\* GlobalRegistry::registerNode(node_id, weak_ptr)
RegisterNode(o) ==
    /\ Alive(o)
    /\ nodes_' = MapPut(nodes_, objs[o].node_id_, o)
    /\ regObs' = [regObs EXCEPT !.lookup = NoLookup]
    /\ UNCHANGED <<services_, ringVars, nodeVars, portVars, reapVars, shmVars, callVars>>

\* GlobalRegistry::getAllNodes: returns the live nodes, erases expired entries.
getAllNodesResult(registry) == {registry[k] : k \in {x \in DOMAIN registry : Lock(registry[x]) # 0}}
PruneExpired(registry) == [k \in {x \in DOMAIN registry : Lock(registry[x]) # 0} |-> registry[k]]

GetAllNodes ==
    /\ nodes_' = PruneExpired(nodes_)
    /\ regObs' = [regObs EXCEPT !.lookup =
                    [op |-> "GlobalRegistry::getAllNodes", node_id |-> "",
                     result |-> getAllNodesResult(nodes_),
                     erased |-> DOMAIN nodes_ \ DOMAIN PruneExpired(nodes_)]]
    /\ UNCHANGED <<services_, ringVars, nodeVars, portVars, reapVars, shmVars, callVars>>

\* GlobalRegistry::findNode (lines 69-76): lock() of the entry, or nullptr.
findNode(registry, node_id) ==
    IF MapHas(registry, node_id) /\ Lock(registry[node_id]) # 0
    THEN {Lock(registry[node_id])} ELSE {}

FindNode(node_id) ==
    /\ regObs' = [regObs EXCEPT !.lookup =
                    [op |-> "GlobalRegistry::findNode", node_id |-> node_id,
                     result |-> findNode(nodes_, node_id), erased |-> {}]]
    /\ UNCHANGED <<services_, nodes_, ringVars, nodeVars, portVars, reapVars, shmVars, callVars>>

\* NodeImpl::getAllNodes (lines 551-568) called on its own: the same loop
\* over the static node_registry_.
NodeGetAllNodes ==
    /\ node_registry_' = PruneExpired(node_registry_)
    /\ regObs' = [regObs EXCEPT !.lookup =
                    [op |-> "NodeImpl::getAllNodes", node_id |-> "",
                     result |-> getAllNodesResult(node_registry_),
                     erased |-> DOMAIN node_registry_ \ DOMAIN PruneExpired(node_registry_)]]
    /\ UNCHANGED <<services_, nodes_, objs, net, pub, cbLog, nodeObs, ringVars, portVars,
                   reapVars, shmVars, callVars>>

\* The descriptors a node registers for itself in the lifecycle runs.
LifeDescriptors == {ServiceDescriptor(id, "g", "t", "UDP") : id \in NodeIds}

NextLife ==
    \/ \E o \in 1 .. MaxPeers, node_id \in NodeIds : CreateNode(o, node_id)
    \/ \E o \in Objs : DestroyNode(o)
    \/ \E o \in Objs : RegisterNode(o)
    \/ GetAllNodes
    \/ \E node_id \in NodeIds : FindNode(node_id)
    \/ NodeGetAllNodes
    \/ \E svc \in LifeDescriptors : RegisterService(svc)
    \/ \E svc \in LifeDescriptors : UnregisterService(svc)
    \/ \E node_id \in NodeIds : UnregisterNode(node_id)


\* ------------------------------------------------ subscribe / unsubscribe

NullCallback == "null"
Callbacks == {"cb1", "cb2"}

\* The key whose unsubscribe/publish order is recorded in nodeObs.barrier.
WatchKey == <<"g", "t">>

SeqToSet(seq) == {seq[i] : i \in 1 .. Len(seq)}

\* An unsubscribe that keeps a group whose last topic was removed.
unsubscribeKeepsEmptyGroup(node, msg_group, topics) ==
    IF msg_group = "" THEN [err |-> "INVALID_ARG", subscriptions |-> node.subscriptions_]
    ELSE IF ~node.running_
    THEN [err |-> "NOT_INITIALIZED", subscriptions |-> node.subscriptions_]
    ELSE IF ~MapHas(node.subscriptions_, msg_group)
    THEN [err |-> "NOT_FOUND", subscriptions |-> node.subscriptions_]
    ELSE IF topics = <<>>
    THEN [err |-> "NO_ERROR", subscriptions |-> MapErase(node.subscriptions_, msg_group)]
    ELSE [err |-> "NO_ERROR",
          subscriptions |->
              [node.subscriptions_ EXCEPT ![msg_group].topics = @ \ SeqToSet(topics)]]

\* A subscribe that looks at running_ before it looks at its arguments.
subscribeChecksRunningFirst(node, msg_group, topics, callback) ==
    IF ~node.running_
    THEN [err |-> "NOT_INITIALIZED", subscriptions |-> node.subscriptions_]
    ELSE IF msg_group = "" \/ topics = <<>> \/ callback = NullCallback
    THEN [err |-> "INVALID_ARG", subscriptions |-> node.subscriptions_]
    ELSE LET sub_info == IF MapHas(node.subscriptions_, msg_group)
                         THEN node.subscriptions_[msg_group]
                         ELSE [topics |-> {}, callback |-> NullCallback]
         IN  [err |-> "NO_ERROR",
              subscriptions |->
                  MapPut(node.subscriptions_, msg_group,
                         [topics |-> sub_info.topics \cup (SeqToSet(topics) \ {""}),
                          callback |-> callback])]

\* A subscribe that keeps the callback a group already has.
subscribeKeepsCallback(node, msg_group, topics, callback) ==
    IF msg_group = "" \/ topics = <<>> \/ callback = NullCallback
    THEN [err |-> "INVALID_ARG", subscriptions |-> node.subscriptions_]
    ELSE IF ~node.running_
    THEN [err |-> "NOT_INITIALIZED", subscriptions |-> node.subscriptions_]
    ELSE LET sub_info == IF MapHas(node.subscriptions_, msg_group)
                         THEN node.subscriptions_[msg_group]
                         ELSE [topics |-> {}, callback |-> callback]
         IN  [err |-> "NO_ERROR",
              subscriptions |->
                  MapPut(node.subscriptions_, msg_group,
                         [topics |-> sub_info.topics \cup (SeqToSet(topics) \ {""}),
                          callback |-> sub_info.callback])]

\* NodeImpl::subscribe (lines 197-231): the result code and the new table.
\* Empty topic strings are skipped, the callback of the group is replaced.
subscribe(node, msg_group, topics, callback) ==
    IF msg_group = "" \/ topics = <<>> \/ callback = NullCallback
    THEN [err |-> "INVALID_ARG", subscriptions |-> node.subscriptions_]
    ELSE IF ~node.running_
    THEN [err |-> "NOT_INITIALIZED", subscriptions |-> node.subscriptions_]
    ELSE LET sub_info == IF MapHas(node.subscriptions_, msg_group)
                         THEN node.subscriptions_[msg_group]
                         ELSE [topics |-> {}, callback |-> NullCallback]
         IN  [err |-> "NO_ERROR",
              subscriptions |->
                  MapPut(node.subscriptions_, msg_group,
                         [topics |-> sub_info.topics \cup (SeqToSet(topics) \ {""}),
                          callback |-> callback])]

\* An unsubscribe that erases the group whatever the topic list is.
unsubscribeWholeGroup(node, msg_group, topics) ==
    IF msg_group = "" THEN [err |-> "INVALID_ARG", subscriptions |-> node.subscriptions_]
    ELSE IF ~node.running_
    THEN [err |-> "NOT_INITIALIZED", subscriptions |-> node.subscriptions_]
    ELSE IF ~MapHas(node.subscriptions_, msg_group)
    THEN [err |-> "NOT_FOUND", subscriptions |-> node.subscriptions_]
    ELSE [err |-> "NO_ERROR", subscriptions |-> MapErase(node.subscriptions_, msg_group)]

\* NodeImpl::unsubscribe (lines 233-273): the result code and the new table.
\* With an empty list the group is erased (the loop that follows reads the
\* erased element to build its announcements; it does not touch the table).
unsubscribe(node, msg_group, topics) ==
    IF msg_group = "" THEN [err |-> "INVALID_ARG", subscriptions |-> node.subscriptions_]
    ELSE IF ~node.running_
    THEN [err |-> "NOT_INITIALIZED", subscriptions |-> node.subscriptions_]
    ELSE IF ~MapHas(node.subscriptions_, msg_group)
    THEN [err |-> "NOT_FOUND", subscriptions |-> node.subscriptions_]
    ELSE IF topics = <<>>
    THEN [err |-> "NO_ERROR", subscriptions |-> MapErase(node.subscriptions_, msg_group)]
    ELSE LET left == node.subscriptions_[msg_group].topics \ SeqToSet(topics)
         IN  [err |-> "NO_ERROR",
              subscriptions |->
                  IF left = {} THEN MapErase(node.subscriptions_, msg_group)
                  ELSE [node.subscriptions_ EXCEPT ![msg_group].topics = left]]

\* The calls of broadcastSubscription made by subscribe (lines 223-228), as
\* (type, group, topic): one per non-empty topic of the list, after the
\* argument and running_ checks have passed.
subscribeAnnouncements(node, msg_group, topics, callback) ==
    IF subscribe(node, msg_group, topics, callback).err # "NO_ERROR" THEN {}
    ELSE {<<"SUBSCRIBE", msg_group, t>> : t \in SeqToSet(topics) \ {""}}

\* The calls of broadcastSubscription that unsubscribe can make.  With a
\* topic list there is one per listed topic (lines 260-264).  With an empty
\* list the loop of lines 255-257 walks the topic set of the element erased
\* at line 252, which is undefined: it announces whatever strings the freed
\* set yields.
unsubscribeAnnouncements(node, msg_group, topics) ==
    IF unsubscribe(node, msg_group, topics).err # "NO_ERROR" THEN {{}}
    ELSE IF topics = <<>>
    THEN SUBSET {<<"UNSUBSCRIBE", msg_group, t>> : t \in Topics}
    ELSE {{<<"UNSUBSCRIBE", msg_group, t>> : t \in SeqToSet(topics)}}

\* How the walk over the erased element ends: the call returns, or the
\* thread is stopped by a fault.  Every other path of unsubscribe returns.
EraseLoopOutcomes(node, msg_group, topics) ==
    IF unsubscribe(node, msg_group, topics).err = "NO_ERROR" /\ topics = <<>>
    THEN {"returns", "fault"}
    ELSE {"returns"}

\* std::set<std::string> copied into a vector: increasing order.
RECURSIVE SortedTopics(_, _)
SortedTopics(topics, k) ==
    IF k > Len(TopicOrder) THEN <<>>
    ELSE (IF TopicOrder[k] \in topics THEN <<TopicOrder[k]>> ELSE <<>>)
         \o SortedTopics(topics, k + 1)

\* NodeImpl::getSubscriptions (lines 275-288): (group, topics) pairs in map order.
RECURSIVE SubscriptionsFrom(_, _)
SubscriptionsFrom(subscriptions, k) ==
    IF k > Len(GroupOrder) THEN <<>>
    ELSE (IF MapHas(subscriptions, GroupOrder[k])
          THEN << <<GroupOrder[k], SortedTopics(subscriptions[GroupOrder[k]].topics, 1)>> >>
          ELSE <<>>)
         \o SubscriptionsFrom(subscriptions, k + 1)

getSubscriptions(node) == SubscriptionsFrom(node.subscriptions_, 1)

\* NodeImpl::isSubscribed (lines 290-299)
isSubscribed(node, msg_group, topic) ==
    /\ MapHas(node.subscriptions_, msg_group)
    /\ topic \in node.subscriptions_[msg_group].topics

\* node->subscribe(msg_group, topics, callback)
Subscribe(o, msg_group, topics, callback) ==
    /\ Alive(o)
    /\ LET r == subscribe(objs[o], msg_group, topics, callback)
       IN  /\ objs' = [objs EXCEPT ![o].subscriptions_ = r.subscriptions]
           /\ nodeObs' =
                [nodeObs EXCEPT
                   !.barrier[o] = IF /\ r.err = "NO_ERROR"
                                     /\ msg_group = WatchKey[1]
                                     /\ WatchKey[2] \in SeqToSet(topics)
                                  THEN -1 ELSE @,
                   !.removed = IF /\ r.err = "NO_ERROR"
                                  /\ msg_group = WatchKey[1]
                                  /\ WatchKey[2] \in SeqToSet(topics)
                               THEN @ \ {o} ELSE @,
                   !.pair = IF r.err = "NO_ERROR" /\ nodeObs.watch = "pair"
                            THEN [phase |-> "subscribed", o |-> o, group |-> msg_group,
                                  topics |-> topics,
                                  before |-> getSubscriptions(objs[o]), after |-> <<>>]
                            ELSE NoPair,
                   !.call = IF CallWatched
                            THEN [op |-> "subscribe", o |-> o, group |-> msg_group,
                                  topics |-> topics, callback |-> callback,
                                  err |-> r.err, before |-> objs[o].subscriptions_,
                                  announced |-> subscribeAnnouncements(objs[o], msg_group,
                                                                       topics, callback),
                                  mark |-> nodeObs.published]
                            ELSE NoCall,
                   !.prev = IF /\ nodeObs.watch = "resubscribe"
                               /\ r.err = "NO_ERROR"
                               /\ nodeObs.call.op = "subscribe"
                               /\ nodeObs.call.err = "NO_ERROR"
                               /\ nodeObs.call.o = o
                               /\ nodeObs.call.group = msg_group
                            THEN nodeObs.call ELSE NoCall]
    /\ UNCHANGED <<node_registry_, net, pub, cbLog, ringVars, regVars, portVars, reapVars, shmVars, callVars>>

\* node->unsubscribe(msg_group, topics)
Unsubscribe(o, msg_group, topics) ==
    /\ Alive(o)
    /\ \E announced \in unsubscribeAnnouncements(objs[o], msg_group, topics),
          outcome \in EraseLoopOutcomes(objs[o], msg_group, topics) :
       LET r == unsubscribe(objs[o], msg_group, topics)
       IN  /\ objs' = [objs EXCEPT ![o].subscriptions_ = r.subscriptions,
                                   ![o].life = IF outcome = "fault" THEN "faulted" ELSE @]
           /\ nodeObs' =
                [nodeObs EXCEPT
                   !.call = IF CallWatched
                            THEN [op |-> "unsubscribe", o |-> o, group |-> msg_group,
                                  topics |-> topics, callback |-> NullCallback,
                                  err |-> IF outcome = "fault" THEN "none" ELSE r.err,
                                  before |-> objs[o].subscriptions_,
                                  announced |-> announced,
                                  mark |-> nodeObs.published]
                            ELSE NoCall,
                   !.prev = NoCall,
                   !.barrier[o] = IF /\ r.err = "NO_ERROR"
                                     /\ nodeObs.watch = "delivery"
                                     /\ msg_group = WatchKey[1]
                                     /\ WatchKey[2] \in SeqToSet(topics)
                                  THEN nodeObs.published ELSE @,
                   !.removed = IF /\ r.err = "NO_ERROR"
                                  /\ nodeObs.watch = "delivery"
                                  /\ msg_group = WatchKey[1]
                                  /\ WatchKey[2] \in SeqToSet(topics)
                               THEN IF isSubscribed(objs[o], WatchKey[1], WatchKey[2])
                                    THEN @ \cup {o} ELSE @ \ {o}
                               ELSE @,
                   !.pair = IF /\ r.err = "NO_ERROR"
                               /\ nodeObs.pair.phase = "subscribed"
                               /\ nodeObs.pair.o = o
                               /\ nodeObs.pair.group = msg_group
                               /\ nodeObs.pair.topics = topics
                            THEN [nodeObs.pair EXCEPT
                                    !.phase = "unsubscribed",
                                    !.after = SubscriptionsFrom(r.subscriptions, 1)]
                            ELSE NoPair]
           /\ pub' = IF r.err = "NO_ERROR"
                     THEN [p \in Objs |-> [pub[p] EXCEPT !.must = @ \ {o}]]
                     ELSE pub
    /\ UNCHANGED <<node_registry_, net, cbLog, ringVars, regVars, portVars, reapVars, shmVars, callVars>>


\* ------------------------------------------------------------- broadcast

MaxPubs == 1          \* publishes begun per run
MaxSeq == 2           \* publishes begun per run when publishes in a row are observed
MaxNet == 1           \* datagrams of the process in flight at a time

\* The port of a socket that belongs to another process.
ExtPort == MaxObjs + 1

\* The id of a node of another process.
ExtNodeId == "X"

\* MessagePacket as built by MessageBuilder::build; `from` is history: the
\* object whose broadcast() built the packet, 0 for another process.
Packet(msg_type, node_id, udp_port, group, topic, payload, from) ==
    [msg_type |-> msg_type, node_id |-> node_id, udp_port |-> udp_port,
     group |-> group, topic |-> topic, payload |-> payload, from |-> from]

\* The publishes a run may begin.
PubLimit == IF nodeObs.watch = "order" THEN MaxSeq ELSE MaxPubs

\* A user callback that throws whenever it is invoked.
ThrowingCallback == "cbThrow"

Throws(callback) == callback = ThrowingCallback

\* One callback invocation of object o: the arguments handleMessage was given,
\* the path the message took, whether o was subscribed to the key, the
\* number of invocations of o for that payload up to and including this one,
\* and whether o had already been invoked for a later payload of the same
\* source on the same key.
Invocation(o, pkt, via, callback, subscribed, nth, late) ==
    [o |-> o, self |-> objs[o].node_id_, from |-> pkt.from, source |-> pkt.node_id,
     group |-> pkt.group, topic |-> pkt.topic, payload |-> pkt.payload, via |-> via,
     callback |-> callback, subscribed |-> subscribed, nth |-> nth, late |-> late]

\* A handleMessage that does not look at the topic set of the group.
handleMessageAnyTopic(node, group, topic) ==
    IF ~MapHas(node.subscriptions_, group) THEN NullCallback
    ELSE node.subscriptions_[group].callback

\* NodeImpl::handleMessage (lines 308-334): the callback it invokes, or
\* NullCallback when it returns without invoking one.
handleMessage(node, group, topic) ==
    IF ~MapHas(node.subscriptions_, group) THEN NullCallback
    ELSE IF topic \notin node.subscriptions_[group].topics THEN NullCallback
    ELSE node.subscriptions_[group].callback

\* A handleMessage that invokes the callback outside a try block.
handleMessageNoCatch(node, group, topic) ==
    IF Throws(handleMessage(node, group, topic)) THEN "raised" ELSE "none"

\* The try block around the callback (lines 326-333): what becomes of an
\* exception of the callback.  catch (...) swallows it; "raised" would mean
\* that it leaves handleMessage.
handleMessageRaises(node, group, topic) ==
    IF Throws(handleMessage(node, group, topic)) THEN "caught" ELSE "none"

\* cbLog after handleMessage ran on object o for the packet.
LogAfter(o, pkt, via) ==
    IF handleMessage(objs[o], pkt.group, pkt.topic) = NullCallback THEN cbLog
    ELSE cbLog \cup
         {Invocation(o, pkt, via,
                     handleMessage(objs[o], pkt.group, pkt.topic),
                     isSubscribed(objs[o], pkt.group, pkt.topic),
                     1 + Cardinality({e \in cbLog : e.o = o /\ e.payload = pkt.payload}),
                     \E e \in cbLog :
                         /\ e.o = o /\ e.source = pkt.node_id
                         /\ e.group = pkt.group /\ e.topic = pkt.topic
                         /\ e.payload > pkt.payload)}

\* std::map<std::string, ...> iterates its keys in lexicographic order.
KeyOrder == <<"A", "B", "C", "D", "X">>
KeyRank(id) == CHOOSE i \in 1 .. Len(KeyOrder) : KeyOrder[i] = id

\* NodeImpl::getAllNodes (lines 551-568): the live nodes in key order.
RECURSIVE LiveNodesFrom(_, _)
LiveNodesFrom(ids, registry) ==
    IF ids = {} THEN <<>>
    ELSE LET id == CHOOSE x \in ids : \A y \in ids : KeyRank(x) <= KeyRank(y)
         IN  (IF Lock(registry[id]) # 0 THEN <<registry[id]>> ELSE <<>>)
             \o LiveNodesFrom(ids \ {id}, registry)

getAllNodes(registry) == LiveNodesFrom(DOMAIN registry, registry)

\* local_node_ids in deliverViaUdp (lines 358-367)
LocalNodeIds == {id \in DOMAIN node_registry_ : Lock(node_registry_[id]) # 0}

\* The sends of deliverViaUdp (lines 369-388) for the publish of object o.
UdpTargets(o) ==
    {id \in DOMAIN objs[o].remote_nodes_ :
        /\ objs[o].remote_nodes_[id].node_id \notin LocalNodeIds
        /\ <<pub[o].group, pub[o].topic>> \in objs[o].remote_nodes_[id].subscriptions
        /\ objs[o].remote_nodes_[id].address # ""
        /\ objs[o].remote_nodes_[id].port > 0}

Datagram(to, pkt) == [to |-> to, pkt |-> pkt]

\* The result code of NodeImpl::broadcast (lines 172-178, 194).
broadcast(node, msg_group, topic) ==
    IF msg_group = "" \/ topic = "" THEN "INVALID_ARG"
    ELSE IF ~node.running_ THEN "NOT_INITIALIZED"
    ELSE "NO_ERROR"

\* node->broadcast(msg_group, topic, payload): the argument checks, the packet
\* and the node list taken by deliverInProcess (lines 169-186, 341).
BroadcastCall(o, msg_group, topic) ==
    /\ Alive(o)
    /\ \A p \in Objs : pub[p].pc = "idle"
    /\ nodeObs.published < PubLimit
    /\ IF broadcast(objs[o], msg_group, topic) # "NO_ERROR"
       THEN /\ UNCHANGED <<pub, node_registry_>>
            /\ nodeObs' = [nodeObs EXCEPT
                             !.pair = NoPair, !.prev = NoCall,
                             !.call = IF CallWatched
                                      THEN [NoCall EXCEPT
                                              !.op = "broadcast", !.o = o,
                                              !.group = msg_group, !.topics = <<topic>>,
                                              !.err = broadcast(objs[o], msg_group, topic),
                                              !.before = objs[o].subscriptions_,
                                              !.mark = nodeObs.published]
                                      ELSE NoCall]
       ELSE /\ pub' = [pub EXCEPT ![o] =
                        [pc |-> "deliverInProcess", group |-> msg_group, topic |-> topic,
                         payload |-> nodeObs.published + 1,
                         nodes |-> getAllNodes(node_registry_),
                         must |-> {n \in Objs \ {o} :
                                     Alive(n) /\ isSubscribed(objs[n], msg_group, topic)}]]
            /\ node_registry_' = PruneExpired(node_registry_)
            /\ nodeObs' = [nodeObs EXCEPT
                             !.published = @ + 1, !.pair = NoPair, !.prev = NoCall,
                             !.call = IF CallWatched
                                      THEN [NoCall EXCEPT
                                              !.op = "broadcast", !.o = o,
                                              !.group = msg_group, !.topics = <<topic>>,
                                              !.err = "NO_ERROR",
                                              !.before = objs[o].subscriptions_,
                                              !.mark = nodeObs.published]
                                      ELSE NoCall]
    /\ UNCHANGED <<objs, net, cbLog, ringVars, regVars, portVars, reapVars, shmVars, callVars>>

\* One round of the loop of deliverInProcess (lines 344-348).  An exception
\* that leaves handleMessage leaves deliverInProcess and broadcast too: the
\* call ends without a result code.
DeliverInProcess(o) ==
    /\ pub[o].pc = "deliverInProcess"
    /\ IF pub[o].nodes = <<>>
       THEN /\ pub' = [pub EXCEPT ![o].pc = "deliverViaUdp"]
            /\ UNCHANGED cbLog
            /\ nodeObs' = [nodeObs EXCEPT !.pair = NoPair]
       ELSE /\ cbLog' = IF Head(pub[o].nodes) = o THEN cbLog
                        ELSE LogAfter(Head(pub[o].nodes),
                                      Packet("DATA", objs[o].node_id_, PortOf(o),
                                             pub[o].group, pub[o].topic,
                                             pub[o].payload, o),
                                      "inprocess")
            /\ IF /\ Head(pub[o].nodes) # o
                  /\ handleMessageRaises(objs[Head(pub[o].nodes)],
                                         pub[o].group, pub[o].topic) = "raised"
               THEN /\ pub' = [pub EXCEPT ![o] = PubIdle]
                    /\ nodeObs' = [nodeObs EXCEPT !.pair = NoPair, !.escaped = TRUE]
               ELSE /\ pub' = [pub EXCEPT ![o].nodes = Tail(@)]
                    /\ nodeObs' = [nodeObs EXCEPT !.pair = NoPair]
    /\ UNCHANGED <<objs, node_registry_, net, ringVars, regVars, portVars, reapVars, shmVars, callVars>>

\* deliverViaUdp (lines 351-389) and the return of broadcast.  A datagram
\* that finds the network full is lost.
DeliverViaUdp(o) ==
    /\ pub[o].pc = "deliverViaUdp"
    /\ \E sent \in SUBSET {Datagram(objs[o].remote_nodes_[id].port,
                                    Packet("DATA", objs[o].node_id_, PortOf(o),
                                           pub[o].group, pub[o].topic,
                                           pub[o].payload, o)) : id \in UdpTargets(o)} :
          /\ Cardinality(net \cup sent) <= MaxNet
          /\ net' = net \cup sent
    /\ pub' = [pub EXCEPT ![o] = PubIdle]
    /\ nodeObs' = [nodeObs EXCEPT
                     !.pair = NoPair,
                     !.returned = @ \cup {<<pub[o].payload, o>>},
                     !.missing = {n \in pub[o].must :
                                    \A e \in cbLog :
                                        ~(e.o = n /\ e.payload = pub[o].payload)}]
    /\ UNCHANGED <<objs, node_registry_, cbLog, ringVars, regVars, portVars, reapVars, shmVars, callVars>>

\* A receiveCallback that does not compare the source with its own node id.
receiveCallbackNoSelfFilter(node, pkt) == pkt.msg_type

\* The switch of receiveCallback (lines 60-109): the handler the packet is
\* given to, "drop" for a packet that carries the node's own id.
receiveCallback(node, pkt) ==
    IF pkt.node_id = node.node_id_ THEN "drop" ELSE pkt.msg_type

\* handleSubscribe / handleSubscriptionReply (lines 426-447, 517-539)
handleSubscribe(node, remote_node_id, remote_port, remote_addr, group, topic) ==
    IF remote_node_id = node.node_id_ THEN node.remote_nodes_
    ELSE MapPut(node.remote_nodes_, remote_node_id,
                [node_id |-> remote_node_id, address |-> remote_addr, port |-> remote_port,
                 subscriptions |->
                    (IF MapHas(node.remote_nodes_, remote_node_id)
                     THEN node.remote_nodes_[remote_node_id].subscriptions ELSE {})
                    \cup {<<group, topic>>}])

\* handleUnsubscribe (lines 449-467)
handleUnsubscribe(node, remote_node_id, group, topic) ==
    IF ~MapHas(node.remote_nodes_, remote_node_id) THEN node.remote_nodes_
    ELSE IF node.remote_nodes_[remote_node_id].subscriptions \ {<<group, topic>>} = {}
    THEN MapErase(node.remote_nodes_, remote_node_id)
    ELSE [node.remote_nodes_ EXCEPT ![remote_node_id].subscriptions = @ \ {<<group, topic>>}]

\* An exception leaves receiveCallback on the receive thread of the node.
ReceiveEscapes(node, pkt) ==
    /\ receiveCallback(node, pkt) = "DATA"
    /\ handleMessageRaises(node, pkt.group, pkt.topic) = "raised"

\* A receive path that hands every packet to its handler and a handler that
\* records every sender.
ReceiveUnfiltered(o, pkt) ==
    /\ objs' = [objs EXCEPT ![o].remote_nodes_ =
                  IF pkt.msg_type \in {"SUBSCRIBE", "SUBSCRIPTION_REPLY"}
                  THEN MapPut(@, pkt.node_id,
                              [node_id |-> pkt.node_id, address |-> "127.0.0.1",
                               port |-> pkt.udp_port,
                               subscriptions |->
                                  (IF MapHas(@, pkt.node_id) THEN @[pkt.node_id].subscriptions
                                   ELSE {}) \cup {<<pkt.group, pkt.topic>>}])
                  ELSE IF pkt.msg_type = "UNSUBSCRIBE"
                  THEN handleUnsubscribe(objs[o], pkt.node_id, pkt.group, pkt.topic)
                  ELSE @]
    /\ cbLog' = IF pkt.msg_type = "DATA" THEN LogAfter(o, pkt, "udp") ELSE cbLog

\* The receive thread of object o runs receiveCallback on a datagram.
\* QUERY_SUBSCRIPTIONS only sends replies to the asking socket; a type
\* without a case in the switch, as HEARTBEAT, does nothing.
Receive(o, pkt) ==
    LET handler == receiveCallback(objs[o], pkt)
    IN  /\ objs' = [objs EXCEPT ![o].remote_nodes_ =
                      IF handler \in {"SUBSCRIBE", "SUBSCRIPTION_REPLY"}
                      THEN handleSubscribe(objs[o], pkt.node_id, pkt.udp_port, "127.0.0.1",
                                           pkt.group, pkt.topic)
                      ELSE IF handler = "UNSUBSCRIBE"
                      THEN handleUnsubscribe(objs[o], pkt.node_id, pkt.group, pkt.topic)
                      ELSE @]
        /\ cbLog' = IF handler = "DATA" THEN LogAfter(o, pkt, "udp") ELSE cbLog

\* handleQuerySubscriptions (lines 490-515): one SUBSCRIPTION_REPLY per
\* subscribed (group, topic), sent to the address and port of the asker.
handleQuerySubscriptions(node, my_port, remote_port, remote_addr) ==
    IF remote_addr = "" \/ remote_port <= 0 THEN {}
    ELSE UNION {{Datagram(remote_port,
                          Packet("SUBSCRIPTION_REPLY", node.node_id_, my_port, group, topic,
                                 0, 0)) : topic \in node.subscriptions_[group].topics} :
                   group \in DOMAIN node.subscriptions_}

\* The replies object o sends when its receive thread is given the packet.
QueryReplies(o, pkt) ==
    IF receiveCallback(objs[o], pkt) = "QUERY_SUBSCRIPTIONS"
    THEN handleQuerySubscriptions(objs[o], PortOf(o), pkt.udp_port, "127.0.0.1")
    ELSE {}

\* queryExistingSubscriptions (lines 469-488): one QUERY_SUBSCRIPTIONS to
\* every port of the scan range but the node's own.
queryExistingSubscriptions(node_id, my_port) ==
    {Datagram(port, Packet("QUERY_SUBSCRIPTIONS", node_id, my_port, "", "", 0, 0)) :
        port \in PortRange \ {my_port}}

\* A datagram sent by a node of the process reaches the socket bound to its
\* port, or nobody when no live node has that port.
UdpDeliver(d) ==
    /\ d \in net
    /\ IF \E o \in Objs : Alive(o) /\ PortOf(o) = d.to
       THEN \E o \in Objs :
               /\ Alive(o) /\ PortOf(o) = d.to
               /\ Receive(o, d.pkt)
               /\ net' = (net \ {d}) \cup QueryReplies(o, d.pkt)
               /\ nodeObs' = [nodeObs EXCEPT
                                !.pair = NoPair,
                                !.escaped = @ \/ ReceiveEscapes(objs[o], d.pkt),
                                !.selfDrop = @ \/ (d.pkt.from = o /\
                                    receiveCallback(objs[o], d.pkt) = "drop")]
       ELSE /\ UNCHANGED <<objs, cbLog>>
            /\ net' = net \ {d}
            /\ nodeObs' = [nodeObs EXCEPT !.pair = NoPair]
    /\ UNCHANGED <<node_registry_, pub, ringVars, regVars, portVars, reapVars, shmVars, callVars>>

\* A datagram is lost.
UdpDrop(d) ==
    /\ d \in net
    /\ net' = net \ {d}
    /\ nodeObs' = [nodeObs EXCEPT
                     !.pair = NoPair,
                     !.disc = IF nodeObs.watch = "discovery" /\ d.pkt.msg_type # "DATA"
                              THEN [@ EXCEPT !.lost = TRUE] ELSE @]
    /\ UNCHANGED <<objs, node_registry_, pub, cbLog, ringVars, regVars, portVars, reapVars, shmVars, callVars>>

\* The control packets other processes send to the sockets of the process.
ControlTypes == {"SUBSCRIBE", "UNSUBSCRIBE", "QUERY_SUBSCRIPTIONS", "SUBSCRIPTION_REPLY"}

\* The senders of control packets, as (node_id, udp_port): the nodes of the
\* process, which announce themselves to every port of the scan range, and a
\* node of another process whose port has since become that of the first node.
ControlSenders ==
    {<<objs[k].node_id_, PortOf(k)>> : k \in {x \in Objs : Alive(x)}}
        \cup {<<ExtNodeId, PortOf(1)>>}

\* A control packet of another process arrives at the socket of object o.
UdpControl(o, msg_type, node_id, udp_port) ==
    /\ Alive(o)
    /\ Receive(o, Packet(msg_type, node_id, udp_port, WatchKey[1], WatchKey[2], 0, 0))
    /\ nodeObs' = [nodeObs EXCEPT
                     !.pair = NoPair,
                     !.rx = IF nodeObs.watch = "self"
                            THEN [o |-> o, msg_type |-> msg_type, node_id |-> node_id]
                            ELSE @]
    /\ UNCHANGED <<node_registry_, net, pub, ringVars, regVars, portVars, reapVars, shmVars, callVars>>

\* Another process publishes and its DATA packet arrives at the socket of o.
UdpData(o, node_id, topic) ==
    /\ Alive(o)
    /\ nodeObs.published < PubLimit
    /\ Receive(o, Packet("DATA", node_id, ExtPort, WatchKey[1], topic,
                         nodeObs.published + 1, 0))
    /\ nodeObs' = [nodeObs EXCEPT
                     !.published = @ + 1, !.pair = NoPair,
                     !.escaped = @ \/ ReceiveEscapes(objs[o],
                                          Packet("DATA", node_id, ExtPort, WatchKey[1],
                                                 topic, nodeObs.published + 1, 0))]
    /\ UNCHANGED <<node_registry_, net, pub, ringVars, regVars, portVars, reapVars, shmVars, callVars>>

\* The arguments of the calls made on one node in the subscription runs.
SubGroups == {"", "g", "h"}
SubTopicLists == {<<>>, <<"t">>, <<"u">>, <<"t", "u">>, <<"">>, <<"", "t">>}
SubCallbacks == {"cb1", NullCallback}
SubTopics == {"", "t", "u"}

\* The calls of the subscription runs: every subscribe and unsubscribe, and
\* the broadcasts that are refused (those that are accepted are followed in
\* the delivery runs).
NextSub ==
    \/ CreateNode(1, "A")
    \/ \E g \in SubGroups, T \in SubTopicLists, cb \in SubCallbacks : Subscribe(1, g, T, cb)
    \/ \E g \in SubGroups, T \in SubTopicLists : Unsubscribe(1, g, T)
    \/ StopRunning(1)
    \/ \E g \in SubGroups, t \in SubTopics :
          broadcast(objs[1], g, t) # "NO_ERROR" /\ BroadcastCall(1, g, t)

\* The calls of the resubscription runs: one node subscribes to one group
\* again and again, and data packets of another process arrive.
ResubTopicLists == SubTopicLists \ {<<>>}

NextResub ==
    \/ CreateNode(1, "A")
    \/ \E T \in ResubTopicLists, cb \in Callbacks : Subscribe(1, WatchKey[1], T, cb)
    \/ \E t \in SubTopics : UdpData(1, ExtNodeId, t)

\* The arguments of the calls in the delivery runs.
NodeTopicLists == {<<"t">>, <<"u">>}

NextNode ==
    \/ \E o \in 1 .. MaxPeers, node_id \in NodeIds :
          (o = 1 => node_id = "A") /\ CreateNode(o, node_id)
    \/ \E o \in Objs : DestroyNode(o)
    \/ \E o \in Objs, T \in NodeTopicLists : Subscribe(o, "g", T, "cb1")
    \/ \E o \in Objs : Unsubscribe(o, "g", <<"t">>)
    \/ \E o \in Objs : BroadcastCall(o, "g", "t")
    \/ \E o \in Objs : DeliverInProcess(o)
    \/ \E o \in Objs : DeliverViaUdp(o)
    \/ \E d \in net : UdpDeliver(d)
    \/ \E d \in net : UdpDrop(d)
    \/ \E o \in Objs, ty \in ControlTypes, sender \in ControlSenders :
          UdpControl(o, ty, sender[1], sender[2])
    \/ \E o \in Objs, id \in NodeIds \cup {ExtNodeId} : UdpData(o, id, "t")

\* A node of the other process comes up on the socket its initialize()
\* bound.  It is registered in the registry of its own process.
PeerCreate(o) ==
    /\ objs[o].life = "none"
    /\ o <= Len(udp_ports)
    /\ udp_ports[o] # 0
    /\ objs' = [objs EXCEPT ![o] = NewObject(DiscIds[o])]
    /\ nodeObs' = [nodeObs EXCEPT !.pair = NoPair]
    /\ UNCHANGED <<node_registry_, net, pub, cbLog, ringVars, regVars, portVars, reapVars, shmVars, callVars>>

\* createNode of the new node, once the other process has bound its
\* sockets: the constructor, registerNode, the socket and
\* queryExistingSubscriptions (lines 52-160).  A datagram to a port without
\* a socket reaches nobody.
StartNode ==
    /\ objs[NewNode].life = "none"
    /\ Len(udp_ports) = MaxInits
    /\ initCall.pc = "idle"
    /\ objs' = [objs EXCEPT ![NewNode] = NewObject(DiscIds[NewNode])]
    /\ node_registry_' = registerNode(node_registry_, DiscIds[NewNode], NewNode)
    /\ net' = net \cup {d \in queryExistingSubscriptions(DiscIds[NewNode], NewNodePort) :
                           \E o \in DiscPeers : Alive(o) /\ PortOf(o) = d.to}
    /\ nodeObs' = [nodeObs EXCEPT
                     !.pair = NoPair,
                     !.disc = [started |-> TRUE,
                               probed |-> {d.to : d \in queryExistingSubscriptions(
                                                           DiscIds[NewNode], NewNodePort)},
                               known |-> {<<o, g, t>> \in DiscPeers \X Groups \X Topics :
                                             Alive(o) /\ isSubscribed(objs[o], g, t)},
                               lost |-> FALSE]]
    /\ UNCHANGED <<pub, cbLog, ringVars, regVars, portVars, reapVars, shmVars, callVars>>

\* The discovery runs: the other process binds its sockets, its nodes come
\* up and subscribe (the announcements of later subscribes are not part of
\* these runs), the new node starts, datagrams arrive or are lost, and
\* the new node publishes.
NextDisc ==
    \/ InitializeCall
    \/ TryPort
    \/ InitializeReturn
    \/ \E o \in DiscPeers : PeerCreate(o)
    \/ \E o \in DiscPeers, T \in NodeTopicLists :
          ~nodeObs.disc.started /\ Subscribe(o, "g", T, "cb1")
    \/ StartNode
    \/ \E d \in net : UdpDeliver(d)
    \/ \E d \in net : UdpDrop(d)
    \/ BroadcastCall(NewNode, "g", "t")
    \/ DeliverInProcess(NewNode)
    \/ DeliverViaUdp(NewNode)

\* The sends of broadcastSubscription (lines 391-424): the packet goes to
\* every known remote node with an address and a port, and to every other
\* port of the scan range only when no remote node is known.
broadcastSubscription(node, my_port, msg_type, group, topic) ==
    LET packet == Packet(msg_type, node.node_id_, my_port, group, topic, 0, 0)
    IN  {Datagram(node.remote_nodes_[id].port, packet) :
            id \in {x \in DOMAIN node.remote_nodes_ :
                       /\ node.remote_nodes_[x].address # ""
                       /\ node.remote_nodes_[x].port > 0}}
        \cup (IF DOMAIN node.remote_nodes_ = {}
              THEN {Datagram(port, packet) : port \in PortRange \ {my_port}}
              ELSE {})

\* Of the datagrams sent, those whose port has a socket at the moment of
\* the send; the others reach nobody.
Heard(sent) == {d \in sent : \E k \in Objs : Alive(k) /\ PortOf(k) = d.to}

\* createNode in the process of object o (lines 52-165): the constructor,
\* registerNode in the registry of that process, the socket and
\* queryExistingSubscriptions.
AnnStart(o) ==
    /\ objs[o].life = "none"
    /\ objs' = [objs EXCEPT ![o] = NewObject(AnnIds[o])]
    /\ node_registry_' = IF o = AnnP THEN registerNode(node_registry_, AnnIds[o], o)
                         ELSE node_registry_
    /\ net' = net \cup Heard(queryExistingSubscriptions(AnnIds[o], PortOf(o)))
    /\ nodeObs' = [nodeObs EXCEPT !.pair = NoPair]
    /\ UNCHANGED <<pub, cbLog, ringVars, regVars, portVars, reapVars, shmVars, callVars>>

\* node->subscribe(msg_group, topics, callback) with its announcements on
\* the wire (lines 197-231): the table is updated, then
\* broadcastSubscription is called once per non-empty topic.  The runs make
\* the calls that add a topic to the table.
AnnSubscribe(o, msg_group, topics) ==
    /\ Alive(o)
    /\ subscribe(objs[o], msg_group, topics, "cb1").subscriptions # objs[o].subscriptions_
    /\ LET r == subscribe(objs[o], msg_group, topics, "cb1")
           sent == UNION {broadcastSubscription(objs[o], PortOf(o), a[1], a[2], a[3]) :
                            a \in subscribeAnnouncements(objs[o], msg_group, topics, "cb1")}
       IN  /\ objs' = [objs EXCEPT ![o].subscriptions_ = r.subscriptions]
           /\ net' = net \cup Heard(sent)
           /\ nodeObs' = [nodeObs EXCEPT
                            !.pair = NoPair,
                            !.ann = IF /\ o = AnnS
                                       /\ r.err = "NO_ERROR"
                                       /\ msg_group = WatchKey[1]
                                       /\ WatchKey[2] \in SeqToSet(topics)
                                       /\ Alive(AnnP)
                                       /\ ~nodeObs.ann.made
                                    THEN [made |-> TRUE,
                                          peers |-> DOMAIN objs[o].remote_nodes_]
                                    ELSE @]
    /\ UNCHANGED <<node_registry_, pub, cbLog, ringVars, regVars, portVars, reapVars, shmVars, callVars>>

\* The announce runs: the three processes start in any order, the
\* subscribers subscribe, every datagram arrives, and the publisher
\* publishes.
NextAnnounce ==
    \/ \E o \in Objs : AnnStart(o)
    \/ \E o \in AnnPeers : AnnSubscribe(o, WatchKey[1], <<WatchKey[2]>>)
    \/ \E d \in net : UdpDeliver(d)
    \/ BroadcastCall(AnnP, WatchKey[1], WatchKey[2])
    \/ DeliverInProcess(AnnP)
    \/ DeliverViaUdp(AnnP)

\* The packet types that can carry the receiver's own id into its table.
SelfTypes == {"SUBSCRIBE", "SUBSCRIPTION_REPLY", "HEARTBEAT"}

\* The runs with packets that carry the receiver's id: control packets of
\* every type and from every sender, the node's own id included, and the
\* heartbeats handed to handleUdpHeartbeat.
NextSelf ==
    \/ \E o \in 1 .. MaxPeers, node_id \in NodeIds : CreateNode(o, node_id)
    \/ \E o \in Objs : DestroyNode(o)
    \/ \E o \in Objs, ty \in ControlTypes \cup SelfTypes, sender \in ControlSenders :
          UdpControl(o, ty, sender[1], sender[2])
    \/ \E from_node \in ReapNodeIds \cup {ReapSelfId} : HandleUdpHeartbeat(from_node)

\* The runs with publishes in a row: the third node publishes twice to the
\* two nodes before it in the registry, the first with a callback that may
\* throw; a node of
\* another process subscribes from its own port or from one that has since
\* become that of the first node, and publishes itself.
OrderIds == <<"A", "B", "C", "D">>
OrderCallbacks == {"cb1", ThrowingCallback}

NextOrder ==
    \/ \E o \in Objs \cap DOMAIN OrderIds : CreateNode(o, OrderIds[o])
    \/ \E o \in 1 .. MaxPeers, cb \in OrderCallbacks :
          (o > 1 => cb = "cb1") /\ Subscribe(o, "g", <<"t">>, cb)
    \/ BroadcastCall(MaxObjs, "g", "t")
    \/ DeliverInProcess(MaxObjs)
    \/ DeliverViaUdp(MaxObjs)
    \/ \E d \in net : UdpDeliver(d)
    \/ \E d \in net : UdpDrop(d)
    \/ \E port \in {PortOf(1), ExtPort} : UdpControl(MaxObjs, "SUBSCRIBE", ExtNodeId, port)
    \/ \E o \in 1 .. MaxPeers : UdpData(o, ExtNodeId, "t")

(***************************************************************************)
(* Part VII.  The subscription locks of the nodes                          *)
(***************************************************************************)

\* A callback that answers a request: invoked for (g, t), it calls
\* broadcast(g, u) on the node it was registered with.
ReplyCallback == "cbReply"
LockCallbacks == {"cb1", ReplyCallback}

\* The topic a callback publishes on its own node when it is invoked for
\* the topic, "" when it publishes nothing.
ReplyTopic(callback, topic) ==
    IF callback = ReplyCallback /\ topic = "t" THEN "u" ELSE ""

\* The call a thread is in: broadcast() with the nodes deliverInProcess has
\* still to visit, or handleMessage holding the lock of its node, before
\* ("locked") or inside ("callback") the callback.
BroadcastFrame(o, topic, nodes) ==
    [fn |-> "broadcast", o |-> o, topic |-> topic, nodes |-> nodes, pc |-> "deliver"]
HandleFrame(o, topic) ==
    [fn |-> "handleMessage", o |-> o, topic |-> topic, nodes |-> <<>>, pc |-> "locked"]

Top(th) == stack[th][Len(stack[th])]
Pop(th) == SubSeq(stack[th], 1, Len(stack[th]) - 1)

\* The nodes the loop of deliverInProcess hands the message to (lines
\* 344-348): those of getAllNodes() but the publisher.
RECURSIVE Others(_, _)
Others(nodes, o) ==
    IF nodes = <<>> THEN <<>>
    ELSE (IF Head(nodes) = o THEN <<>> ELSE <<Head(nodes)>>) \o Others(Tail(nodes), o)

\* std::lock_guard<std::mutex> on entry of handleMessage (line 313): the
\* thread goes on when the mutex is free.
MutexFree(o) == subscriptions_mutex_[o] = 0

\* A thread calls node->broadcast(g, topic): the argument checks and the
\* node list of deliverInProcess (lines 169-186, 341).
LkBroadcast(th, o, topic) ==
    /\ stack[th] = <<>>
    /\ Alive(o)
    /\ broadcast(objs[o], WatchKey[1], topic) = "NO_ERROR"
    /\ stack' = [stack EXCEPT ![th] =
                   <<BroadcastFrame(o, topic, Others(getAllNodes(node_registry_), o))>>]
    /\ node_registry_' = PruneExpired(node_registry_)
    /\ UNCHANGED <<subscriptions_mutex_, unregCall, regs, objs, net, pub, cbLog, nodeObs,
                   ringVars, regVars, portVars, reapVars, shmVars>>

\* deliverInProcess calls handleMessage of the next node, which takes the
\* subscription lock of that node (lines 346, 313).
LkHandleMessage(th) ==
    /\ stack[th] # <<>>
    /\ Top(th).fn = "broadcast"
    /\ Top(th).nodes # <<>>
    /\ MutexFree(Head(Top(th).nodes))
    /\ subscriptions_mutex_' = [subscriptions_mutex_ EXCEPT ![Head(Top(th).nodes)] = th]
    /\ stack' = [stack EXCEPT ![th] =
                   Pop(th) \o <<[Top(th) EXCEPT !.nodes = Tail(@)],
                               HandleFrame(Head(Top(th).nodes), Top(th).topic)>>]
    /\ UNCHANGED <<unregCall, regs, nodeVars, ringVars, regVars, portVars, reapVars, shmVars>>

\* handleMessage under the lock (lines 315-333): without a subscription to
\* the topic, or with a callback that publishes nothing, it returns and the
\* lock is released; a callback that answers calls broadcast() on its node.
\* The runs keep no history of the invocations.
LkCallback(th) ==
    /\ stack[th] # <<>>
    /\ Top(th).fn = "handleMessage"
    /\ Top(th).pc = "locked"
    /\ LET o == Top(th).o
           reply == ReplyTopic(handleMessage(objs[o], WatchKey[1], Top(th).topic),
                               Top(th).topic)
       IN  IF reply # "" /\ broadcast(objs[o], WatchKey[1], reply) = "NO_ERROR"
           THEN /\ stack' = [stack EXCEPT ![th] =
                               Pop(th) \o <<[Top(th) EXCEPT !.pc = "callback"],
                                           BroadcastFrame(o, reply,
                                               Others(getAllNodes(node_registry_), o))>>]
                /\ node_registry_' = PruneExpired(node_registry_)
                /\ UNCHANGED subscriptions_mutex_
           ELSE /\ stack' = [stack EXCEPT ![th] = Pop(th)]
                /\ subscriptions_mutex_' = [subscriptions_mutex_ EXCEPT ![o] = 0]
                /\ UNCHANGED node_registry_
    /\ UNCHANGED <<unregCall, regs, objs, net, pub, cbLog, nodeObs,
                   ringVars, regVars, portVars, reapVars, shmVars>>

\* The broadcast() of the callback has returned: the callback and
\* handleMessage return, the lock_guard releases the lock (line 334).
LkUnlock(th) ==
    /\ stack[th] # <<>>
    /\ Top(th).fn = "handleMessage"
    /\ Top(th).pc = "callback"
    /\ stack' = [stack EXCEPT ![th] = Pop(th)]
    /\ subscriptions_mutex_' = [subscriptions_mutex_ EXCEPT ![Top(th).o] = 0]
    /\ UNCHANGED <<unregCall, regs, nodeVars, ringVars, regVars, portVars, reapVars, shmVars>>

\* deliverInProcess has visited every node: deliverViaUdp (no remote node is
\* known in these runs, so nothing is sent) and the return of broadcast().
LkReturn(th) ==
    /\ stack[th] # <<>>
    /\ Top(th).fn = "broadcast"
    /\ Top(th).nodes = <<>>
    /\ stack' = [stack EXCEPT ![th] = Pop(th)]
    /\ UNCHANGED <<subscriptions_mutex_, unregCall, regs, nodeVars, ringVars, regVars, portVars,
                   reapVars, shmVars>>

\* subscribe() takes the subscription lock of its node for the whole call
\* (line 208) and calls no user code under it.
LkSubscribe(o, topics, callback) ==
    /\ MutexFree(o)
    /\ Subscribe(o, WatchKey[1], topics, callback)

\* The lock runs: two nodes of one process are created and subscribe to the
\* request and the reply topic, and two threads publish requests.
LockTopicLists == {<<"t">>, <<"t", "u">>}

NextLock ==
    \/ \E o \in 1 .. MaxPeers : CreateNode(o, DiscIds[o])
    \/ \E o \in 1 .. MaxPeers, T \in LockTopicLists, cb \in LockCallbacks :
          LkSubscribe(o, T, cb)
    \/ \E th \in Threads, o \in 1 .. MaxPeers : LkBroadcast(th, o, "t")
    \/ \E th \in Threads : LkHandleMessage(th)
    \/ \E th \in Threads : LkCallback(th)
    \/ \E th \in Threads : LkUnlock(th)
    \/ \E th \in Threads : LkReturn(th)

\* GlobalRegistry::unregisterNode(node_id), first block (lines 21-24): the
\* id is erased from the node map under nodes_mutex_, which is released.
UnregisterNodeErase(node_id) ==
    /\ unregCall.pc = "idle"
    /\ nodes_' = MapErase(nodes_, node_id)
    /\ unregCall' = [pc |-> "sweep", node_id |-> node_id,
                     erased |-> MapHas(nodes_, node_id)]
    /\ regObs' = RegObs0
    /\ UNCHANGED <<services_, subscriptions_mutex_, stack, regs,
                   ringVars, nodeVars, portVars, reapVars, shmVars>>

\* Second block (lines 28-49): the descriptors of the id are swept out of
\* the service table under services_mutex_.
UnregisterNodeSweep ==
    /\ unregCall.pc = "sweep"
    /\ services_' = SweepServices(services_, unregCall.node_id, 1)
    /\ unregCall' = [unregCall EXCEPT !.pc = "return"]
    /\ UNCHANGED <<nodes_, regObs, subscriptions_mutex_, stack, regs,
                   ringVars, nodeVars, portVars, reapVars, shmVars>>

\* unregisterNode returns (line 50).
UnregisterNodeReturn ==
    /\ unregCall.pc = "return"
    /\ unregCall' = UnregIdle
    /\ UNCHANGED <<regVars, subscriptions_mutex_, stack, regs,
                   ringVars, nodeVars, portVars, reapVars, shmVars>>

\* The unregister runs: nodes are created and registered, one thread is in
\* unregisterNode, and other threads register services and look nodes up;
\* each of their calls is one critical section.
NextUnreg ==
    \/ \E o \in 1 .. MaxPeers : CreateNode(o, DiscIds[o])
    \/ \E o \in 1 .. MaxPeers : RegisterNode(o)
    \/ \E node_id \in NodeIds : UnregisterNodeErase(node_id)
    \/ UnregisterNodeSweep
    \/ UnregisterNodeReturn
    \/ \E svc \in LifeDescriptors : RegisterService(svc)
    \/ \E node_id \in NodeIds : FindNode(node_id)

(***************************************************************************)
(* Specifications                                                          *)
(***************************************************************************)

SpecRing == Init /\ [][NextRing]_vars

SpecCorrupt == InitCorrupt /\ [][NextCorrupt]_vars

SpecEndpoint == Init /\ [][NextEndpoint]_vars

SpecReg == Init /\ [][NextReg]_vars

SpecLife == Init /\ [][NextLife]_vars

SpecSub == InitSub /\ [][NextSub]_vars

SpecResub == InitResub /\ [][NextResub]_vars

SpecNode == Init /\ [][NextNode]_vars

SpecOrder == InitOrder /\ [][NextOrder]_vars

SpecSelf == InitSelf /\ [][NextSelf]_vars

SpecDisc == InitDisc /\ [][NextDisc]_vars

SpecUnreg == Init /\ [][NextUnreg]_vars

SpecLock == Init /\ [][NextLock]_vars

SpecAnnounce == InitAnnounce /\ [][NextAnnounce]_vars

\* The receive thread of every socket keeps taking datagrams, and the
\* thread that called broadcast() keeps running.
SpecAnnounceFair ==
    /\ SpecAnnounce
    /\ WF_vars(\E d \in net : UdpDeliver(d))
    /\ WF_vars(DeliverInProcess(AnnP))
    /\ WF_vars(DeliverViaUdp(AnnP))

SpecPort == InitBusy /\ [][NextPort]_vars

SpecReap == Init /\ [][NextReap]_vars

SpecShm == Init /\ [][NextShm]_vars

SpecTorn == Init /\ [][NextTorn]_vars

SpecRace == Init /\ [][NextRace]_vars


(***************************************************************************)
(* Claims about GlobalRegistry                                             *)
(***************************************************************************)

\* The stored descriptors of one identity, as positions of findServices("").
StoredAt(identity) ==
    {i \in 1 .. Len(findServices(services_, "")) :
        Identity(findServices(services_, "")[i]) = identity}

C19_HighestTransportStored ==
    (regObs.fresh /\ Len(regObs.transports) >= 1) =>
        /\ StoredAt(regObs.identity) # {}
        /\ \A i \in StoredAt(regObs.identity) :
              \A k \in 1 .. Len(regObs.transports) :
                  TransportRank(findServices(services_, "")[i].transport) >=
                      TransportRank(regObs.transports[k])

\* C23: unregisterService(group, svc) takes out of the group every
\* descriptor with svc's node_id and topic and no other, keeps the order of
\* the rest, drops the group key exactly when the list is empty, and leaves
\* every other group as it was; so a descriptor registered by the call
\* before it is gone.
C23_UnregisterRemovesOnlyMatching ==
    [][regObs'.unreg.identity # <<>> =>
          LET node_id == regObs'.unreg.identity[1]
              group == regObs'.unreg.identity[2]
              topic == regObs'.unreg.identity[3]
          IN  /\ findServices(services_', group) =
                     SelectSeq(findServices(services_, group),
                               LAMBDA s : ~(s.node_id = node_id /\ s.topic = topic))
              /\ MapHas(services_', group) <=> findServices(services_', group) # <<>>
              /\ \A g \in (DOMAIN services_ \cup DOMAIN services_') \ {group} :
                     /\ MapHas(services_, g) /\ MapHas(services_', g)
                     /\ services_'[g] = services_[g]]_vars

\* C23 happens: a descriptor registered by the call before was taken out
\* while other descriptors stayed in the same group and in another one.
C23_Witness ==
    /\ regObs.unreg.identity # <<>>
    /\ regObs.unreg.registered
    /\ regObs.unreg.removed > 0
    /\ findServices(services_, regObs.unreg.identity[2]) # <<>>
    /\ \E g \in DOMAIN services_ : g # regObs.unreg.identity[2]
    /\ \E i \in 1 .. Len(findServices(services_, "")) :
          /\ findServices(services_, "")[i].node_id = regObs.unreg.identity[1]
          /\ findServices(services_, "")[i].group = regObs.unreg.identity[2]

(***************************************************************************)
(* Claims about the node lifecycle                                         *)
(***************************************************************************)

\* C9: when a node is destroyed, afterwards the service table holds no
\* descriptor with that node's id and the node is no longer in the in-process
\* node registry.
C9_DestroyCleansUp ==
    [][\A o \in Objs :
         (objs[o].life = "alive" /\ objs'[o].life = "dead") =>
             /\ \A i \in 1 .. Len(findServices(services_', "")) :
                   findServices(services_', "")[i].node_id # objs[o].node_id_
             /\ \A k \in DOMAIN node_registry_' : node_registry_'[k] # o]_vars


\* C28: every getAllNodes returns exactly the registered nodes that are
\* alive and leaves no entry of an expired node in the registry; findNode
\* returns the registered node when it is alive and nothing otherwise; so no
\* call returns a destroyed node.  A step is such a call when it leaves the
\* objects alone and records the call or changes a registry under it.
C28_LookupsReturnOnlyLiveNodes ==
    [][(/\ regObs'.lookup.op # "none"
        /\ objs' = objs
        /\ (regObs'.lookup # regObs.lookup \/ nodes_' # nodes_
                \/ node_registry_' # node_registry_)) =>
          LET call == regObs'.lookup
              LiveKeys(registry) == {k \in DOMAIN registry : objs[registry[k]].life = "alive"}
              Pruned(before, after) ==
                  /\ call.result = {before[k] : k \in LiveKeys(before)}
                  /\ call.erased = DOMAIN before \ LiveKeys(before)
                  /\ DOMAIN after = LiveKeys(before)
                  /\ \A k \in DOMAIN after : after[k] = before[k]
          IN  /\ \A o \in call.result : objs[o].life = "alive"
              /\ call.op = "GlobalRegistry::getAllNodes" => Pruned(nodes_, nodes_')
              /\ call.op = "NodeImpl::getAllNodes" => Pruned(node_registry_, node_registry_')
              /\ call.op = "GlobalRegistry::findNode" =>
                    /\ nodes_' = nodes_
                    /\ call.result = {nodes_[k] : k \in LiveKeys(nodes_) \cap {call.node_id}}]_vars

\* C28 happens: a node was destroyed while the registry still held its
\* entry, and a getAllNodes erased that entry and returned the other node.
C28_Witness ==
    /\ regObs.lookup.op = "GlobalRegistry::getAllNodes"
    /\ regObs.lookup.erased # {}
    /\ regObs.lookup.result # {}
    /\ \E o \in Objs : objs[o].life = "dead"

(***************************************************************************)
(* Claims about subscribe / unsubscribe                                    *)
(***************************************************************************)

\* C10: subscribe(g, T, cb) followed by unsubscribe(g, T), for a non-empty
\* topic list T, leaves getSubscriptions() equal to its value before the
\* pair, whatever the subscriptions were before.
C10_SubscribeUnsubscribeRestores ==
    (nodeObs.pair.phase = "unsubscribed" /\ nodeObs.pair.topics # <<>>) =>
        nodeObs.pair.after = nodeObs.pair.before

\* The value of getSubscriptions() before the observed pair with the topics
\* of the pair's list taken out of the pair's group, the group being dropped
\* when no topic remains.
RECURSIVE WithoutPairTopics(_)
WithoutPairTopics(subs) ==
    IF subs = <<>> THEN <<>>
    ELSE LET first == subs[1]
             left == SelectSeq(first[2], LAMBDA t : t \notin SeqToSet(nodeObs.pair.topics))
         IN  (IF first[1] # nodeObs.pair.group THEN <<first>>
              ELSE IF left = <<>> THEN <<>>
              ELSE << <<first[1], left>> >>)
             \o WithoutPairTopics(Tail(subs))

\* C10, amended: subscribe(g, T, cb) followed by unsubscribe(g, T), T not
\* empty, leaves getSubscriptions() equal to its value before the pair with
\* the topics of T removed from g and g absent when none of its topics remains.
C10_PairRemovesListedTopics ==
    (nodeObs.pair.phase = "unsubscribed" /\ nodeObs.pair.topics # <<>>) =>
        nodeObs.pair.after = WithoutPairTopics(nodeObs.pair.before)

\* C10 happens: a pair with a two-topic list was made on a node that held a
\* second group, and the table is the one from before the pair.
C10_Witness ==
    /\ nodeObs.pair.phase = "unsubscribed"
    /\ Len(nodeObs.pair.topics) = 2
    /\ Len(nodeObs.pair.before) >= 1
    /\ nodeObs.pair.after = nodeObs.pair.before


\* C12: an unsubscribe(g, topics) that returned NO_ERROR has removed the
\* entry of g when the list is empty; with a non-empty list it has removed
\* exactly the listed topics from g, and the entry of g when no topic is
\* left; the entries of all other groups are as they were.
C12_UnsubscribeRemovesListed ==
    (nodeObs.call.op = "unsubscribe" /\ nodeObs.call.err = "NO_ERROR") =>
        LET now == objs[nodeObs.call.o].subscriptions_
            before == nodeObs.call.before
            g == nodeObs.call.group
            left == before[g].topics \ SeqToSet(nodeObs.call.topics)
        IN  /\ DOMAIN now \subseteq DOMAIN before
            /\ \A h \in DOMAIN before \ {g} : MapHas(now, h) /\ now[h] = before[h]
            /\ IF nodeObs.call.topics = <<>> \/ left = {}
               THEN ~MapHas(now, g)
               ELSE /\ MapHas(now, g)
                    /\ now[g].topics = left
                    /\ now[g].callback = before[g].callback

\* C12 happens: one of two topics of a group was unsubscribed while a second
\* group was subscribed, and the group is still there with the other topic.
C12_Witness ==
    /\ nodeObs.call.op = "unsubscribe"
    /\ nodeObs.call.err = "NO_ERROR"
    /\ Len(nodeObs.call.topics) = 1
    /\ Cardinality(DOMAIN nodeObs.call.before) = 2
    /\ Cardinality(nodeObs.call.before[nodeObs.call.group].topics) = 2
    /\ MapHas(objs[nodeObs.call.o].subscriptions_, nodeObs.call.group)

\* C22: an unsubscribe that returned NO_ERROR has handed to
\* broadcastSubscription an UNSUBSCRIBE for every (group, topic) it took out
\* of the table, with an empty topic list as with a list of topics.
C22_AnnouncesEveryRemovedTopic ==
    (nodeObs.call.op = "unsubscribe" /\ nodeObs.call.err = "NO_ERROR") =>
        LET now == objs[nodeObs.call.o].subscriptions_
            g == nodeObs.call.group
            removed == nodeObs.call.before[g].topics
                          \ (IF MapHas(now, g) THEN now[g].topics ELSE {})
        IN  \A t \in removed : <<"UNSUBSCRIBE", g, t>> \in nodeObs.call.announced

\* C22 restricted to the calls that name their topics.
C22_ListedTopicsAnnounced ==
    (/\ nodeObs.call.op = "unsubscribe"
     /\ nodeObs.call.err = "NO_ERROR"
     /\ nodeObs.call.topics # <<>>) =>
        LET now == objs[nodeObs.call.o].subscriptions_
            g == nodeObs.call.group
            removed == nodeObs.call.before[g].topics
                          \ (IF MapHas(now, g) THEN now[g].topics ELSE {})
        IN  \A t \in removed : <<"UNSUBSCRIBE", g, t>> \in nodeObs.call.announced

\* C13: broadcast with an empty group or topic, subscribe with an empty group,
\* an empty topic list or a null callback, and unsubscribe with an empty group
\* return INVALID_ARG, also on a node that is not running; with valid
\* arguments on a node that is not running they return NOT_INITIALIZED;
\* unsubscribe of a group without subscription returns NOT_FOUND; and after
\* every call that returned an error the subscription table is the one the
\* call found, nothing was announced and no delivery was begun.
C13_ErrorsLeaveNoTrace ==
    (nodeObs.call.op # "none" /\ nodeObs.call.err # "none") =>
        LET c == nodeObs.call
            node == objs[c.o]
            invalid == CASE c.op = "broadcast" -> c.group = "" \/ c.topics[1] = ""
                         [] c.op = "subscribe" ->
                              c.group = "" \/ c.topics = <<>> \/ c.callback = NullCallback
                         [] OTHER -> c.group = ""
        IN  /\ invalid => c.err = "INVALID_ARG"
            /\ (~invalid /\ ~node.running_) => c.err = "NOT_INITIALIZED"
            /\ (/\ ~invalid
                /\ node.running_
                /\ c.op = "unsubscribe"
                /\ ~MapHas(c.before, c.group)) => c.err = "NOT_FOUND"
            /\ c.err # "NO_ERROR" =>
                  /\ node.subscriptions_ = c.before
                  /\ c.announced = {}
                  /\ pub[c.o] = PubIdle
                  /\ net = {}

\* C13 happens: a subscribe with an empty group and a valid topic list and
\* callback was refused with INVALID_ARG by a node that is not running and
\* holds subscriptions.
C13_Witness ==
    /\ nodeObs.call.op = "subscribe"
    /\ nodeObs.call.group = ""
    /\ nodeObs.call.topics # <<>>
    /\ nodeObs.call.callback # NullCallback
    /\ nodeObs.call.err = "INVALID_ARG"
    /\ ~objs[nodeObs.call.o].running_
    /\ objs[nodeObs.call.o].subscriptions_ # EmptyMap

C6_EverySubscriberExactlyOnce ==
    /\ nodeObs.missing = {}
    /\ \A e \in cbLog : e.nth = 1 /\ e.subscribed

\* C7: a node's callback is never invoked for a message the node itself
\* published, neither by in-process delivery nor for a datagram that carries
\* the node's own id.
C7_NoSelfReception ==
    \A e \in cbLog : e.from # e.o /\ (e.via = "udp" => e.source # e.self)

\* C7 happens: a node subscribed to the key it publishes on has had its
\* message delivered to another node, and its own datagram came back to its
\* socket.
C7_Witness ==
    /\ nodeObs.selfDrop
    /\ \E e \in cbLog :
          /\ e.from # 0
          /\ Alive(e.from)
          /\ isSubscribed(objs[e.from], e.group, e.topic)

\* The control datagrams on their way.
ControlInFlight == {d \in net : d.pkt.msg_type # "DATA"}

\* C21: a node that started after nodes of another process had subscribed
\* has sent a QUERY_SUBSCRIPTIONS to every port of 47200..47999 but its own;
\* once no control datagram is on its way and none was lost, its
\* remote-node table holds each of those nodes that is still alive, with its
\* port and the (group, topic) it had subscribed, and a publish of the new
\* node to that (group, topic) has the node among its UDP targets.
C21_LateNodeLearnsSubscribers ==
    nodeObs.disc.started =>
        /\ nodeObs.disc.probed = PortRange \ {PortOf(NewNode)}
        /\ (ControlInFlight = {} /\ ~nodeObs.disc.lost) =>
              \A k \in nodeObs.disc.known :
                  LET o == k[1]
                      table == objs[NewNode].remote_nodes_
                  IN  Alive(o) =>
                        /\ MapHas(table, objs[o].node_id_)
                        /\ <<k[2], k[3]>> \in table[objs[o].node_id_].subscriptions
                        /\ table[objs[o].node_id_].port = PortOf(o)
                        /\ (/\ pub[NewNode].pc = "deliverViaUdp"
                            /\ pub[NewNode].group = k[2]
                            /\ pub[NewNode].topic = k[3]) =>
                                objs[o].node_id_ \in UdpTargets(NewNode)

\* C21 restricted to the subscribers whose socket is bound inside
\* 47200..47999.
C21_SubscribersInRangeLearned ==
    (nodeObs.disc.started /\ ControlInFlight = {} /\ ~nodeObs.disc.lost) =>
        \A k \in nodeObs.disc.known :
            LET o == k[1]
                table == objs[NewNode].remote_nodes_
            IN  (Alive(o) /\ PortOf(o) \in PortRange) =>
                  /\ MapHas(table, objs[o].node_id_)
                  /\ <<k[2], k[3]>> \in table[objs[o].node_id_].subscriptions
                  /\ table[objs[o].node_id_].port = PortOf(o)
                  /\ (/\ pub[NewNode].pc = "deliverViaUdp"
                      /\ pub[NewNode].group = k[2]
                      /\ pub[NewNode].topic = k[3]) =>
                          objs[o].node_id_ \in UdpTargets(NewNode)

\* C24: no node's remote-node table holds an entry under the node's own id,
\* and a SUBSCRIBE, SUBSCRIPTION_REPLY or HEARTBEAT that carries the
\* receiver's id leaves the receiver, the callback log and the network as
\* they were; the same for a heartbeat of the node itself handed to
\* handleUdpHeartbeat.
C24_NoSelfEntry ==
    /\ [](/\ \A o \in Objs : ~MapHas(objs[o].remote_nodes_, objs[o].node_id_)
          /\ ~MapHas(remote_nodes_, ReapSelfId))
    /\ [][\A o \in Objs, ty \in SelfTypes, port \in {PortOf(k) : k \in Objs} :
             (Alive(o) /\ UdpControl(o, ty, objs[o].node_id_, port)) =>
                 (objs' = objs /\ cbLog' = cbLog /\ net' = net)]_vars
    /\ [][HandleUdpHeartbeat(ReapSelfId) => (remote_nodes_' = remote_nodes_)]_vars

\* C24 happens: a node that knows a remote node has been handed a SUBSCRIBE
\* that carries its own id.
C24_Witness ==
    /\ nodeObs.rx.msg_type = "SUBSCRIBE"
    /\ Alive(nodeObs.rx.o)
    /\ nodeObs.rx.node_id = objs[nodeObs.rx.o].node_id_
    /\ objs[nodeObs.rx.o].remote_nodes_ # EmptyMap
    /\ remote_nodes_ # EmptyMap

\* C8: once unsubscribe(g, {t}) has returned NO_ERROR on a node, the node's
\* callback is invoked for no publish to (g, t) that began afterwards, until
\* the node subscribes to (g, t) again.
C8_NoDeliveryAfterUnsubscribe ==
    \A e \in cbLog :
        (/\ e.group = WatchKey[1]
         /\ e.topic = WatchKey[2]
         /\ nodeObs.barrier[e.o] >= 0) => e.payload <= nodeObs.barrier[e.o]

\* C8 happens: a broadcast of another node on the key began after a
\* registered node had unsubscribed from the key, keeping another topic of
\* the group, and returned.
C8_Witness ==
    \E o \in Objs :
        /\ Alive(o)
        /\ nodeObs.barrier[o] >= 0
        /\ o \in nodeObs.removed
        /\ MapHas(objs[o].subscriptions_, WatchKey[1])
        /\ \E id \in DOMAIN node_registry_ : node_registry_[id] = o
        /\ \E r \in nodeObs.returned : r[1] > nodeObs.barrier[o] /\ r[2] # o

\* C16: an exception thrown by a callback leaves neither broadcast nor the
\* receive thread: every publish that reached a callback and is over has
\* returned NO_ERROR, and it has invoked every subscribed node of the
\* process, those after the throwing one and, for later publishes, the
\* throwing one included.
C16_ThrowingCallbackContained ==
    /\ ~nodeObs.escaped
    /\ nodeObs.missing = {}
    /\ \A e \in cbLog :
          (e.from # 0 /\ pub[e.from].payload # e.payload)
              => <<e.payload, e.from>> \in nodeObs.returned

\* C16 happens: two publishes in a row have returned; the first node's
\* callback threw for both, the node after it was invoked for the first, and
\* the throwing callback has also run on the receive thread.
C16_Witness ==
    /\ {<<1, MaxObjs>>, <<2, MaxObjs>>} \subseteq nodeObs.returned
    /\ \E e1, e2, e3, e4 \in cbLog :
          /\ e1.o = 1 /\ e1.payload = 1 /\ e1.via = "inprocess" /\ Throws(e1.callback)
          /\ e2.o = 2 /\ e2.payload = 1 /\ e2.via = "inprocess"
          /\ e3.o = 1 /\ e3.payload = 2 /\ e3.via = "inprocess" /\ Throws(e3.callback)
          /\ e4.o = 1 /\ e4.via = "udp" /\ Throws(e4.callback)

\* C17: a subscriber's callback sees the messages one publisher sent to one
\* (group, topic) in the order the publish calls were made: no invocation
\* comes after one for a later message of the same publisher and key.
C17_PublisherOrderPreserved ==
    \A e \in cbLog : ~e.late

(***************************************************************************)
(* Claims about the UDP port selection                                     *)
(***************************************************************************)

\* C18: a node initialised with port 0 while a port of 47200..47999 is free
\* ends up bound to a port of that range, whatever the value of the
\* next-port counter, and no two nodes of the process have the same port.
C18_AutoPortInReservedRange ==
    /\ (initCall.pc = "bound" /\ initCall.hadFree)
          => (initCall.bound /\ initCall.target_port \in PortRange)
    /\ \A i, j \in 1 .. Len(udp_ports) : i # j => udp_ports[i] # udp_ports[j]

(***************************************************************************)
(* Claims about the UDP timeout check                                      *)
(***************************************************************************)

\* C20: a run of the timeout check removes every remote node whose heartbeat
\* is older than the node timeout, and leaves no service descriptor of it in
\* the table; it keeps every remote node whose heartbeat is within the
\* timeout, with its entry and its services as they were; and no step deletes
\* an entry and leaves a service of that node behind.
C20_ReaperRemovesExpiredWithServices ==
    [][/\ reapObs'.runs # reapObs.runs =>
            \A id \in DOMAIN remote_nodes_ :
                IF clock - remote_nodes_[id].last_heartbeat > NODE_TIMEOUT
                THEN /\ ~MapHas(remote_nodes_', id)
                     /\ ServicesOfNode(services_', id) = {}
                ELSE /\ MapHas(remote_nodes_', id)
                     /\ remote_nodes_'[id] = remote_nodes_[id]
                     /\ ServicesOfNode(services_', id) = ServicesOfNode(services_, id)
       /\ \A id \in DOMAIN remote_nodes_ \ DOMAIN remote_nodes_' :
            ServicesOfNode(services_', id) = {}]_vars

\* C20 happens: a run of the check removed a node with a registered service
\* and kept another one, whose service is still in the table.
C20_Witness ==
    /\ reapObs.runs > 0
    /\ \E id \in reapObs.removed :
          /\ ~MapHas(remote_nodes_, id)
          /\ \E svc \in reapObs.purged : svc.node_id = id
    /\ \E id \in reapObs.kept :
          /\ MapHas(remote_nodes_, id)
          /\ ServicesOfNode(services_, id) # {}

(***************************************************************************)
(* Claims about the shared-memory registry                                 *)
(***************************************************************************)

\* The valid slots of a region that hold this node_id.
SlotsOf(region, node_id) ==
    {i \in 1 .. MaxEntries : ShmValid(region[i]) /\ region[i].node_id = node_id}

\* C25: registering a node_id that is present succeeds, refreshes the
\* heartbeat of its entry and changes nothing else, so that no second slot is
\* taken; the registry holds at most one valid entry per node_id at any time;
\* findNode of a present node returns the shm_name with which its entry was
\* registered; and after unregisterNode nodeExists is false.
C25_RegisterTwiceKeepsOneEntry ==
    /\ \A node_id \in ShmNodeIds : Cardinality(SlotsOf(entries, node_id)) <= 1
    /\ (shmObs.op = "registerNode" /\ nodeExists(shmObs.before, shmObs.node_id)) =>
          /\ shmObs.ok
          /\ entries = [shmObs.before EXCEPT
                          ![findEntryIndex(shmObs.before, shmObs.node_id)].last_heartbeat =
                              shmNow]
    /\ shmObs.op = "findNode" =>
          IF nodeExists(entries, shmObs.node_id)
          THEN /\ shmObs.ok
               /\ \E info \in shmObs.listed :
                     /\ shmObs.listed = {info}
                     /\ info.node_id = shmObs.node_id
                     /\ info.shm_name = shmObs.created[shmObs.node_id]
          ELSE ~shmObs.ok /\ shmObs.listed = {}
    /\ shmObs.op = "unregisterNode" => ~nodeExists(entries, shmObs.node_id)

\* C25 happens: a node_id was registered a second time, a second later and
\* under another shm_name, while a slot was free.
C25_Witness ==
    /\ shmObs.op = "registerNode"
    /\ nodeExists(shmObs.before, shmObs.node_id)
    /\ findFreeEntryIndex(shmObs.before) # 0
    /\ shmObs.shm_name # shmObs.created[shmObs.node_id]
    /\ \E i \in SlotsOf(entries, shmObs.node_id) :
          /\ shmObs.before[i].last_heartbeat < shmNow
          /\ entries[i].last_heartbeat = shmNow


\* The valid slots that cleanupStaleNodes(timeout_ms) found stale: the
\* heartbeat is older than the timeout or the process has ended.
StaleSlots(region, timeout_ms) ==
    {i \in 1 .. MaxEntries :
        /\ ShmValid(region[i])
        /\ (shmNow - region[i].last_heartbeat > timeout_ms \/ region[i].pid \in deadPids)}

\* C26 as stated: after cleanupStaleNodes(timeout) nodeExists stays true for
\* every node whose heartbeat was refreshed within the timeout.
C26_FreshHeartbeatSurvivesCleanup ==
    shmObs.op = "cleanupStaleNodes" =>
        \A i \in 1 .. MaxEntries :
            (/\ ShmValid(shmObs.before[i])
             /\ shmNow - shmObs.before[i].last_heartbeat <= shmObs.timeout_ms) =>
                nodeExists(entries, shmObs.before[i].node_id)

\* C26: cleanupStaleNodes(timeout) clears exactly the valid slots whose
\* heartbeat is older than the timeout or whose process is dead, leaves every
\* other slot as it was and returns the number of slots it cleared; afterwards
\* nodeExists is false for each cleared node and true for every node whose
\* heartbeat is within the timeout and whose process is alive; and neither
\* getAllNodes nor the listing after a cleanup holds an entry that is invalid,
\* older than the timeout of getAllNodes or owned by a dead process.
C26_CleanupClearsExactlyStale ==
    /\ shmObs.op = "cleanupStaleNodes" =>
          /\ shmObs.count = Cardinality(StaleSlots(shmObs.before, shmObs.timeout_ms))
          /\ \A i \in 1 .. MaxEntries :
                IF i \in StaleSlots(shmObs.before, shmObs.timeout_ms)
                THEN /\ ~ShmValid(entries[i])
                     /\ ~nodeExists(entries, shmObs.before[i].node_id)
                ELSE /\ entries[i] = shmObs.before[i]
                     /\ ShmValid(shmObs.before[i]) =>
                           nodeExists(entries, shmObs.before[i].node_id)
    /\ shmObs.op \in {"getAllNodes", "cleanupStaleNodes"} =>
          \A info \in shmObs.listed :
              /\ shmNow - info.last_heartbeat <= ShmTimeout
              /\ info.pid \notin deadPids
              /\ \E i \in 1 .. MaxEntries : ShmValid(entries[i]) /\ NodeInfo(entries[i]) = info

\* C26 happens: a cleanup cleared one node for its old heartbeat and another
\* for its dead process, whose heartbeat was within the timeout.
C26_Witness ==
    /\ shmObs.op = "cleanupStaleNodes"
    /\ shmObs.count = 2
    /\ \E i, j \in StaleSlots(shmObs.before, shmObs.timeout_ms) :
          /\ shmNow - shmObs.before[i].last_heartbeat > shmObs.timeout_ms
          /\ shmObs.before[i].pid \notin deadPids
          /\ shmNow - shmObs.before[j].last_heartbeat <= shmObs.timeout_ms
          /\ shmObs.before[j].pid \in deadPids
          /\ ~nodeExists(entries, shmObs.before[i].node_id)
          /\ ~nodeExists(entries, shmObs.before[j].node_id)


\* C27: a getAllNodes that runs beside registerNode, unregisterNode and the
\* reuse of a slot by another node returns no node_id and no shm_name that
\* mixes the 8-byte words of two strings: every string it returns for an entry
\* it saw as valid is one that a writer stored whole.
C27_ReaderSeesNoTornName ==
    \A info \in rd.out : info.node_id \in ShmNodeIds /\ info.shm_name \in ShmNames


\* C31: under every interleaving of the producer's and the consumer's loads,
\* stores and copies, no copy of tryWrite stores a frame or a padding header
\* into a cell of a published frame whose read is not completed, and no
\* tryRead copies a frame of which a byte lies outside the frames published
\* by a store to head_.
C31_NoOverlapOfWriteAndRead ==
    ~ringObs.clobbered /\ ~ringObs.unpublished


\* A header that is corruption: a magic that is neither VALID nor PADDING, or
\* VALID with a length above MAX_MSG_SIZE.
BadHeader(cell) ==
    \/ cell.magic \notin {MAGIC_VALID, MAGIC_PADDING}
    \/ cell.magic = MAGIC_VALID /\ cell.length > MAX_MSG_SIZE

\* tryRead is about to look at a bad header inside buffer_.
AtBadHeader ==
    /\ cons.pc \in {"header", "header0"}
    /\ InBuffer(cons.tail)
    /\ BadHeader(buffer_[cons.tail \div 8])

\* C32 as stated: a tryRead that finds a bad header returns false and leaves
\* tail_ as it was when the call began, also when the bad header is found at
\* offset 0 after a padding frame was skipped in the same call.
C32_BadHeaderLeavesTailUnchanged ==
    [][(AtBadHeader /\ cons' # cons) =>
          /\ cons'.pc = "idle" /\ cons'.ret = "false"
          /\ tail_' = cons.entry]_vars

\* C32: a tryRead that finds a bad header returns false and does not move
\* tail_ past it: tail_ stays at the bad header, which is the tail the call
\* began with when the header is the first one read, and offset 0, stored by
\* the skip of the padding frame, when it is read after a padding frame.
C32_BadHeaderKeepsTailAtHeader ==
    [][(AtBadHeader /\ cons' # cons) =>
          /\ cons'.pc = "idle" /\ cons'.ret = "false"
          /\ tail_' = tail_ /\ tail_' = cons.tail
          /\ (cons.pc = "header" => tail_' = cons.entry)
          /\ (cons.pc = "header0" => tail_' = 0)]_vars

\* C32 happens: a tryRead that began at a padding frame away from offset 0
\* has stored tail_ = 0 and returned false for the bad header at offset 0.
C32_Witness ==
    /\ cons.pc = "idle" /\ cons.ret = "false" /\ cons.bad = "afterPad"
    /\ cons.entry # 0 /\ tail_ = 0
    /\ BadHeader(buffer_[0])


PublisherRecordsSubscriber ==
    /\ Alive(AnnP)
    /\ MapHas(objs[AnnP].remote_nodes_, AnnIds[AnnS])
    /\ WatchKey \in objs[AnnP].remote_nodes_[AnnIds[AnnS]].subscriptions

\* C34: once the subscriber has subscribed to (g, t) while the publisher-only
\* node of another process was running, and no datagram is lost, the
\* remote-node table of the publisher eventually records that subscription,
\* whatever the subscriber's own remote-node table held at the call.
C34_PublisherLearnsSubscriber ==
    nodeObs.ann.made ~> PublisherRecordsSubscriber

\* C34, the case in which the subscriber knew no remote node when it
\* subscribed: its announcement goes to every port of the scan range and the
\* publisher records the subscription.
C34_ScanReachesPublisher ==
    (nodeObs.ann.made /\ nodeObs.ann.peers = {}) ~> PublisherRecordsSubscriber


(***************************************************************************)
(* C35.  Broadcasts from callbacks and the subscription locks              *)
(***************************************************************************)

\* The thread is inside deliverInProcess, about to enter handleMessage of a
\* node whose subscription lock is held by thread `holder`.
WaitsFor(th, holder) ==
    /\ stack[th] # <<>>
    /\ Top(th).fn = "broadcast"
    /\ Top(th).nodes # <<>>
    /\ subscriptions_mutex_[Head(Top(th).nodes)] = holder

\* C35: with callbacks that answer a request by a broadcast on their own
\* node, no two threads wait for a subscription lock the other holds, and no
\* thread waits for a subscription lock it holds itself.
C35_NoLockWaitCycle ==
    \A th \in Threads, other \in Threads :
        ~(WaitsFor(th, other) /\ WaitsFor(other, th))

\* C35, the part about one thread: a thread never enters handleMessage of a
\* node whose subscription lock it already holds.
C35_NoRelockByHolder ==
    \A th \in Threads : ~WaitsFor(th, th)

\* A thread is in the broadcast of a reply, under the lock of the replying
\* node.
C35_Witness ==
    \E th \in Threads :
        /\ Len(stack[th]) = 3
        /\ Top(th).fn = "broadcast"
        /\ subscriptions_mutex_[Top(th).o] = th


(***************************************************************************)
(* C36.  Nodes that share a node id                                        *)
(***************************************************************************)

\* C36: every node that has been created and not destroyed has an entry in
\* the in-process node registry, also when another node with the same id has
\* been created or destroyed.
C36_LiveNodeIsRegistered ==
    \A o \in Objs :
        Alive(o) => \E id \in DOMAIN node_registry_ : node_registry_[id] = o

\* C36, for nodes whose id no other object has carried: such a node has its
\* entry in the in-process node registry as long as it lives.
C36_UniqueIdIsRegistered ==
    \A o \in Objs :
        (Alive(o) /\ \A p \in Objs \ {o} : objs[p].life = "none" \/
                                           (Alive(p) /\ objs[p].node_id_ # objs[o].node_id_))
            => (MapHas(node_registry_, objs[o].node_id_)
                /\ node_registry_[objs[o].node_id_] = o)


(***************************************************************************)
(* C37.  unregisterNode seen from other threads                            *)
(***************************************************************************)

\* findServices("") returns a descriptor of the node id.
HasDescriptorOf(services, node_id) ==
    \E i \in 1 .. Len(findServices(services, "")) :
        findServices(services, "")[i].node_id = node_id

\* C37: in no state can a thread that calls findNode and findServices find
\* a node id that unregisterNode has removed from the node map while the
\* service table still holds a descriptor of that id (no other call on the
\* registry has been made since the removal).
C37_UnregisterNodeIsAtomic ==
    (/\ unregCall.pc # "idle"
     /\ unregCall.erased
     /\ regObs = RegObs0
     /\ findNode(nodes_, unregCall.node_id) = {}) =>
        ~HasDescriptorOf(services_, unregCall.node_id)

\* C37, second part: when a registerService for the id took place while
\* unregisterNode(id) was in progress, the service table holds no descriptor
\* of the id once unregisterNode returns.
C37_OverlappingRegisterLeavesNothing ==
    [][(/\ unregCall.pc = "return"
        /\ unregCall'.pc = "idle"
        /\ regObs.identity # <<>>
        /\ regObs.identity[1] = unregCall.node_id)
           => ~HasDescriptorOf(services_', unregCall.node_id)]_vars

\* C37, what unregisterNode does give: its sweep leaves no descriptor of the
\* id in the service table.
C37_SweepRemovesEarlierDescriptors ==
    [][(unregCall.pc = "sweep" /\ unregCall'.pc = "return")
           => ~HasDescriptorOf(services_', unregCall.node_id)]_vars


(***************************************************************************)
(* C38.  Groups of the subscription table                                  *)
(***************************************************************************)

\* C38: every group in the subscription table of a node has at least one
\* topic and a callback that is not null, whatever subscribe and unsubscribe
\* calls were made, those with a topic list of empty strings included.
C38_GroupsHaveTopicsAndCallback ==
    \A o \in Objs :
        Alive(o) =>
            \A g \in DOMAIN objs[o].subscriptions_ :
                /\ objs[o].subscriptions_[g].topics # {}
                /\ objs[o].subscriptions_[g].callback # NullCallback

\* C38, the part about the callback: every group in the subscription table
\* has a callback that is not null, no topic of a group is the empty
\* string, and no group has the empty name.
C38_GroupsHaveCallback ==
    \A o \in Objs :
        Alive(o) =>
            \A g \in DOMAIN objs[o].subscriptions_ :
                /\ g # ""
                /\ "" \notin objs[o].subscriptions_[g].topics
                /\ objs[o].subscriptions_[g].callback # NullCallback


(***************************************************************************)
(* C39.  Two processes register different nodes at the same time           *)
(***************************************************************************)

\* The registerNode calls of both processes have returned true.
BothRegistered == \A pid \in ShmPids : regs[pid].pc = "done" /\ regs[pid].ok

\* The two ids are in different slots, and each is found by findNode and
\* listed by getAllNodes.
BothPresent ==
    /\ \A p \in ShmPids, q \in ShmPids : p # q => regs[p].idx # regs[q].idx
    /\ \A pid \in ShmPids :
          /\ shmFindNode(entries, regs[pid].node_id) # {}
          /\ \E n \in shmGetAllNodes(entries, shmNow, deadPids) :
                n.node_id = regs[pid].node_id

\* C39: when the registerNode calls of two processes for different node ids
\* have both returned true, the ids occupy different slots and both nodes
\* are found by findNode and listed by getAllNodes, also when the calls
\* overlapped.
C39_ConcurrentRegistrationsBothPresent ==
    BothRegistered => BothPresent

\* C39, for calls made one after the other: both nodes are present.
C39_SequentialRegistrationsBothPresent ==
    (BothRegistered /\ \A pid \in ShmPids : ~regs[pid].overlapped) => BothPresent

=============================================================================
